---- MODULE Spec2Model ----
(***************************************************************************)
(* Betaflight blackbox field sync: the sync orchestrator                   *)
(* (bbsyncer/sync/orchestrator.py) with the stream writer, the session     *)
(* store and the MSP client it drives, as one state machine.  One run of   *)
(* SyncOrchestrator.run is followed from the opening of the serial port to *)
(* the returned SyncResult.  The flight controller, the serial link and    *)
(* the disk are the environment: every answer they can give is a choice    *)
(* of the action that consumes it.                                         *)
(***************************************************************************)
EXTENDS Integers, Sequences, FiniteSets, TLC

\* ------------------------------------------------------------------ bounds
\* Bytes of dataflash the flight controller holds.
FlashLen == 3
\* Largest config.flash_chunk_size tried.
MaxChunk == 2
\* Polls that fit into erase_timeout_sec (one every _ERASE_POLL_INTERVAL).
MaxPolls == 2
\* Read requests whose answers may still be on the wire.
MaxInflight == 2
\* Times the storage may keep other bytes than it was given, in one run.
MaxDiskFaults == 1
\* The counts of client calls are kept up to this many.
CallCap == 2
\* Clock readings in one second of wall-clock time.
TicksPerSecond == 2
\* Last reading of the clock.
MaxClock == 3
\* Syncs started against one storage root.
MaxSyncs == 3
\* Longest payload of a frame given to the decoder.
MaxPayload == 2
\* Most bytes of noise in front of a frame.
MaxGarbage == 3
\* Most bytes handed to one call of FrameDecoder.feed.
MaxFeed == 3
\* Frames the flight controller puts on the serial line.
MaxFrames == 2
\* Most bytes one serial read returns.
MaxRead == 4
\* Serial read timeouts (0.1 s each) that fit into the response timeout.
TimeoutTicks == 2
\* Calls of receive and request made on one client.
MaxClientCalls == 2
MaxIdLen == 4
MaxWriteLen == 2
MaxWritten == 4
MaxStored == 2
MaxGetThreads == 2
MaxUptime == 12

\* --------------------------------------------------------- program constants
MAX_CONSECUTIVE_ERRORS == 5
BLACKBOX_DEVICE_NONE == 0
BLACKBOX_DEVICE_FLASH == 1
BLACKBOX_DEVICE_SDCARD == 2

\* The code never looks into the bytes it copies, so each flash address holds
\* a byte of its own: where a byte of the file came from can be read off it.
Byte == 0..(FlashLen - 1)
Flashes == {[i \in 1..FlashLen |-> i - 1], [i \in 1..FlashLen |-> FlashLen - i]}
Variants == {"BTFL", "INAV"}
Uids == {"deadbeef", "unknown"}
Devices == {BLACKBOX_DEVICE_NONE, BLACKBOX_DEVICE_FLASH, BLACKBOX_DEVICE_SDCARD}
NoValue == "none"
NoManifest == [written |-> FALSE, sha256 |-> 0, bytes |-> 0,
               erase_attempted |-> FALSE, erase_completed |-> FALSE]

VARIABLES
    cfg,        \* Config fields and dry_run of this SyncOrchestrator
    flash,      \* the FC's dataflash content (environment)
    pc,         \* position of run()
    result,     \* the SyncResult returned, NoValue while running
    client,     \* MSPClient: serial port and the read requests on the wire
    loc,        \* locals of _run
    writer,     \* StreamWriter fields
    disk,       \* storage root: session directory, raw_flash.bbl, manifest.json
    led,        \* last state given to LEDController.set_state
    status,     \* _current_status
    calls,      \* number of calls made of each client command
    hist,       \* history of the run: what the environment did to it
    manifest_io,\* manifest.json of one session while it is written or updated
    sessions,   \* make_session_dir: the clock and the directories it made
    decoder,    \* FrameDecoder fields, frames included
    wire,       \* the bytes given to FrameDecoder.feed and how far they are fed
    msp,        \* MSPClient: _pending, the serial input and the call in progress
    det,        \* detect_fc: its position, what it was answered, what it gives
    ledc,       \* LEDController and its worker thread
    web,        \* the web server's storage root and its last answer
    sw          \* a StreamWriter, its file and what was given to write

vars == <<cfg, flash, pc, result, client, loc, writer, disk, led, status, calls, hist,
          manifest_io, sessions, decoder, wire, msp, det, ledc, web, sw>>

\* What a run of the orchestrator leaves alone: the manifest writer, the
\* session directories and the frame decoder are followed on their own.
apart == <<manifest_io, sessions, decoder, wire, msp, det, ledc, web, sw>>

\* The client's receive path, detect_fc, the LED worker, the web server and
\* a stream writer, each followed on its own as well.
rest == <<msp, det, ledc, web, sw>>

\* The orchestrator is not run while a part is followed on its own.
run == <<cfg, flash, pc, result, client, loc, writer, disk, led, status, calls, hist>>

\* What each of these leaves alone.
first == <<run, manifest_io, sessions, wire>>
notClient == <<first, det, ledc, web, sw>>
notDetect == <<first, decoder, msp, ledc, web, sw>>
notLed == <<first, decoder, msp, det, web, sw>>
notWeb == <<first, decoder, msp, det, ledc, sw>>
notWriter == <<first, decoder, msp, det, ledc, web>>

\* ------------------------------------------------------------------ helpers
Min(a, b) == IF a < b THEN a ELSE b

Max(a, b) == IF a > b THEN a ELSE b

\* Bytes [addr, addr+n) of a byte sequence, cut at its end.
Slice(s, addr, n) == SubSeq(s, addr + 1, Min(addr + n, Len(s)))

\* hashlib.sha256: the digest is kept as the number whose digits, in base
\* Cardinality(Byte)+1, are the bytes plus one.  Distinct byte sequences
\* have distinct digests, as SHA-256 is taken to have.
Sha256Init == 0
RECURSIVE Sha256Update(_, _)
Sha256Update(h, data) ==
    IF data = <<>> THEN h
    ELSE Sha256Update(h * (Cardinality(Byte) + 1) + Head(data) + 1, Tail(data))
Sha256(data) == Sha256Update(Sha256Init, data)

\* ------------------------------------------------------- decisions of the code
\* detect_fc: variant[:4] != BTFL_VARIANT raises FCNotBetaflight.
IsBetaflight(variant) == variant = "BTFL"

\* Mutant: the SD card check compares with the wrong device type.
IsSDCardWrongDevice(device) == device = BLACKBOX_DEVICE_FLASH

\* detect_fc: blackbox_device == BLACKBOX_DEVICE_SDCARD raises FCSDCardBlackbox.
IsSDCard(device) == device = BLACKBOX_DEVICE_SDCARD

\* _run step 3: the summary lets the sync go on.
FlashUsable(summary) == summary.supported /\ summary.ready

\* Mutant: the empty-flash return is missing.
FlashEmptyNever(summary) == FALSE

\* _run step 3: nothing to sync.
FlashEmpty(summary) == summary.used_size = 0

\* _run step 4: required = used_size + min_free_space, against free space.
StorageShort(available, used, min_free) == available < used + min_free

\* Mutant: every request asks for a full chunk, the last one too.
ChunkSizeFull(chunk_size, used, addr) == chunk_size

\* _run step 6: size of the window requested at addr.
ChunkSize(chunk_size, used, addr) == Min(chunk_size, used - addr)

\* Mutant: a retry limit that is never reached.
TooManyErrorsNever(n) == FALSE

\* _run step 6: the bounded-retry limit, for MSP errors and mismatches alike.
TooManyErrors(n) == n >= MAX_CONSECUTIVE_ERRORS

\* Mutant: the address of a response is not looked at.
AddressMismatchNever(chunk_addr, address) == FALSE

\* _run step 6: a response for another window than the one awaited.
AddressMismatch(chunk_addr, address) == chunk_addr # address

\* Mutant: a received chunk does not reset the error count.
ErrorsAfterChunkKept(n) == n

\* _run step 6: consecutive_errors after a received chunk.
ErrorsAfterChunk(n) == 0

\* Mutant: the next request is sent after the last chunk as well.
MoreToReadAlways(next_address, used) == TRUE

\* _run step 6: the next request is sent only while data remains.
MoreToRead(next_address, used) == next_address < used

\* _run step 6: progress published after a chunk.
Progress(address, used) == (address * 100) \div used

\* Mutant: the size gate only catches a file that is too long.
SizeMismatchOnlyLonger(bytes_written, used) == bytes_written > used

\* _run step 7: the size gate.
SizeMismatch(bytes_written, used) == bytes_written # used

\* Mutant: a dry run skips the erase only when erase_after_sync is off.
SkipEraseDryRunUnlessConfigured(c) == c.dry_run /\ ~c.erase_after_sync

\* _run step 9: the erase is skipped for a dry run ...
SkipEraseDryRun(c) == c.dry_run

\* ... and when erase_after_sync is off.
SkipEraseConfig(c) == ~c.erase_after_sync

\* Mutant: an empty flash confirms the erase, ready or not.
EraseConfirmedWhenEmpty(summary) == summary.used_size = 0

\* _wait_for_erase: the poll that confirms the erase.
EraseConfirmed(summary) == summary.used_size = 0 /\ summary.ready

\* ------------------------------------------------------------- StreamWriter
NewWriter == [file |-> "none", hasher |-> Sha256Init, bytes_written |-> 0]

WriterOpen(w) == [w EXCEPT !.file = "open"]

\* Mutant: the data is counted and not hashed.
WriterWriteCountOnly(w, data) == [w EXCEPT !.bytes_written = @ + Len(data)]

\* write(): zero-length writes are no-ops; otherwise hash and count the data.
WriterWrite(w, data) ==
    IF data = <<>> THEN w
    ELSE [w EXCEPT !.hasher = Sha256Update(@, data),
                   !.bytes_written = @ + Len(data)]

\* close(): flush, fsync, close; idempotent.
WriterClose(w) == [w EXCEPT !.file = IF @ = "open" THEN "closed" ELSE @]

\* Mutants: abort() unlinks without closing; abort() closes without unlinking.
WriterAbortNoClose(w) == w
DiskAfterAbortKept(d) == d

\* abort(): close(), then unlink the file if it exists.
WriterAbort(w) == WriterClose(w)
DiskAfterAbort(d) == [d EXCEPT !.bbl_exists = FALSE, !.bbl = <<>>]

\* Mutant: the re-read hash is not compared.
VerifyMatchSkipped(w, d) == TRUE

\* verify_against_file(): (match, file_sha256) from a re-read of the file.
FileSha256(d) == Sha256(d.bbl)
VerifyMatch(w, d) == FileSha256(d) = w.hasher

\* What the disk may hold of the bytes handed to file.write: the bytes, or,
\* when the storage misbehaves, the bytes with one flipped or the last one lost.
DiskStores(data) ==
    IF data = <<>> THEN {data}
    ELSE {data,
          [data EXCEPT ![1] = (@ + 1) % FlashLen],
          SubSeq(data, 1, Len(data) - 1)}

\* ------------------------------------------------------------ session store
NoFcInfo == [detected |-> FALSE, variant |-> "none", uid |-> "unknown",
             blackbox_device |-> BLACKBOX_DEVICE_NONE]

\* Mutant: the manifest is first written as if the erase had been tried.
WriteManifestEraseTried(sha256, used, erase_completed, erase_attempted) ==
    [written |-> TRUE, sha256 |-> sha256, bytes |-> used,
     erase_attempted |-> TRUE, erase_completed |-> erase_completed]

\* write_manifest(session_dir, fc_info, sha256, used_size, False, False)
WriteManifest(sha256, used, erase_completed, erase_attempted) ==
    [written |-> TRUE, sha256 |-> sha256, bytes |-> used,
     erase_attempted |-> erase_attempted, erase_completed |-> erase_completed]

\* Mutant: the update records the result and not the attempt.
UpdateManifestEraseResultOnly(m, erase_completed) ==
    [m EXCEPT !.erase_completed = erase_completed]

\* update_manifest_erase(session_dir, erase_completed)
UpdateManifestErase(m, erase_completed) ==
    [m EXCEPT !.erase_completed = erase_completed, !.erase_attempted = TRUE]

\* ---------------------------------------------------------------- MSPClient
\* close(): closes the serial port if it is open.
MSPClientClose(c) == [c EXCEPT !.open = FALSE]

\* __exit__ of "with MSPClient(...) as client".
MSPClientExit(c) == MSPClientClose(c)

\* send_flash_read_request(address, size): the request goes on the wire.
SendFlashReadRequest(c, address, size) ==
    [c EXCEPT !.inflight = Append(@, [addr |-> address, size |-> size])]

\* What a flight controller that keeps to the protocol answers to request r.
HonestResponse(r) == [chunk_addr |-> r.addr, data |-> Slice(flash, r.addr, r.size)]

\* Every answer the flight controller may give to request r: the bytes it
\* holds at some address, of some length up to one more than was asked.
Responses(r) ==
    {[chunk_addr |-> a, data |-> Slice(flash, a, n)] :
        a \in 0..(FlashLen - 1), n \in 0..(r.size + 1)}

\* What a call of the client can end in.
ClientOutcomes == {"ok", "msp_error", "exception"}
\* get_dataflash_summary: what the FC may report: a chip of FlashLen bytes
\* with any part of it used, and the least summary whose used_size is above
\* its total_size.
Summaries ==
    [supported : BOOLEAN, ready : BOOLEAN, used_size : 0..FlashLen,
     total_size : {FlashLen}]
    \cup [supported : BOOLEAN, ready : BOOLEAN, used_size : {1}, total_size : {0}]

\* ------------------------------------------------------------ msp/crc.py
\* a ^ b on non-negative integers.
RECURSIVE BitXor(_, _)
BitXor(a, b) ==
    IF a = 0 THEN b
    ELSE IF b = 0 THEN a
    ELSE ((a + b) % 2) + 2 * BitXor(a \div 2, b \div 2)

\* a | b on non-negative integers.
RECURSIVE BitOr(_, _)
BitOr(a, b) ==
    IF a = 0 THEN b
    ELSE IF b = 0 THEN a
    ELSE (IF a % 2 = 1 \/ b % 2 = 1 THEN 1 ELSE 0) + 2 * BitOr(a \div 2, b \div 2)

\* _py_crc8_xor: functools.reduce(operator.xor, data, 0)
RECURSIVE Crc8XorFrom(_, _)
Crc8XorFrom(acc, data) ==
    IF data = <<>> THEN acc ELSE Crc8XorFrom(BitXor(acc, Head(data)), Tail(data))
Crc8Xor(data) == Crc8XorFrom(0, data)

\* _build_crc8_dvb_s2_table: n more rounds of the shift register on crc.
RECURSIVE Crc8Rounds(_, _)
Crc8Rounds(crc, n) ==
    IF n = 0 THEN crc
    ELSE Crc8Rounds(IF crc >= 128 THEN BitXor(crc * 2, 213) % 256
                    ELSE (crc * 2) % 256,
                    n - 1)
CRC8_TABLE == [i \in 0..255 |-> Crc8Rounds(i, 8)]

\* Mutant: the CRC of a continued message starts again from zero.
RECURSIVE Crc8DvbS2FromZero(_, _)
Crc8DvbS2FromZero(data, initial) ==
    IF data = <<>> THEN 0
    ELSE CRC8_TABLE[BitXor(Crc8DvbS2FromZero(SubSeq(data, 1, Len(data) - 1), 0),
                           data[Len(data)])]

\* _py_crc8_dvb_s2(data, initial): crc = _CRC8_TABLE[crc ^ b] for b in data.
RECURSIVE Crc8DvbS2(_, _)
Crc8DvbS2(data, initial) ==
    IF data = <<>> THEN initial
    ELSE Crc8DvbS2(Tail(data), CRC8_TABLE[BitXor(initial, Head(data))])

\* --------------------------------------------------------- msp/framing.py
IDLE == 1
PROTO_V1_M == 2
PROTO_DIRECTION == 3
V1_LEN == 4
V1_CODE == 5
V1_PAYLOAD == 6
V1_CHECKSUM == 7
V2_FLAG == 8
V2_CODE_LO == 9
V2_CODE_HI == 10
V2_LEN_LO == 11
V2_LEN_HI == 12
V2_PAYLOAD == 13
V2_CHECKSUM == 14

\* ord('$'), ord('M'), ord('X'), ord('<'), ord('>'), ord('!')
Dollar == 36
LetterM == 77
LetterX == 88
ToFc == 60
FromFc == 62
Bang == 33

\* MSPFrame
MSPFrame(version, direction, code, payload) ==
    [version |-> version, direction |-> direction, code |-> code,
     payload |-> payload]

\* encode_v1: $M< size code payload checksum, the checksum over size, code
\* and payload.
EncodeV1(code, payload) ==
    LET size == Len(payload)
        checksum == Crc8Xor(<<size, code>> \o payload)
    IN  <<Dollar, LetterM, ToFc>> \o <<size, code>> \o payload \o <<checksum>>

\* encode_v2: $X< flag code(LE) size(LE) payload crc, the CRC over all that
\* follows the direction byte.
EncodeV2(code, payload) ==
    LET size == Len(payload)
        header_for_crc == <<0, code % 256, (code \div 256) % 256,
                            size % 256, (size \div 256) % 256>>
        crc == Crc8DvbS2(header_for_crc \o payload, 0)
    IN  <<Dollar, LetterX, ToFc>> \o header_for_crc \o payload \o <<crc>>

\* FrameDecoder._reset: everything but the frames.
Reset(d) ==
    [d EXCEPT !.state = IDLE, !.version = 0, !.direction = 0, !.code = 0,
              !.size = 0, !.payload = <<>>, !.payload_idx = 0,
              !.checksum = 0, !.v2_header = <<>>]

\* FrameDecoder.__init__
NewDecoder ==
    [frames |-> <<>>, state |-> IDLE, version |-> 0, direction |-> 0,
     code |-> 0, size |-> 0, payload |-> <<>>, payload_idx |-> 0,
     checksum |-> 0, v2_header |-> <<>>]

\* bytearray(size)
ByteArray(size) == [i \in 1..size |-> 0]

\* Mutant: the top bit of the checksum byte is not compared.
ChecksumMatchesLowBits(b, expected) == b % 128 = expected % 128

\* _process, V1_CHECKSUM and V2_CHECKSUM: the byte against the sum computed.
ChecksumMatches(b, expected) == b = expected

\* The frame the decoder has collected, appended to d.frames.
Emit(d, version) ==
    [d EXCEPT !.frames = Append(@, MSPFrame(version, d.direction, d.code, d.payload))]

\* FrameDecoder._process(b): one byte through the state machine.
Process(d, b) ==
    CASE d.state = IDLE ->
            IF b = Dollar THEN [d EXCEPT !.state = PROTO_V1_M] ELSE d
      [] d.state = PROTO_V1_M ->
            IF b = LetterM
            THEN [d EXCEPT !.version = 1, !.state = PROTO_DIRECTION]
            ELSE IF b = LetterX
            THEN [d EXCEPT !.version = 2, !.state = PROTO_DIRECTION]
            ELSE Reset(d)
      [] d.state = PROTO_DIRECTION ->
            IF b \in {ToFc, FromFc, Bang}
            THEN [d EXCEPT !.direction = b,
                           !.state = IF d.version = 1 THEN V1_LEN ELSE V2_FLAG]
            ELSE Reset(d)
      [] d.state = V1_LEN ->
            [d EXCEPT !.size = b, !.checksum = b, !.state = V1_CODE]
      [] d.state = V1_CODE ->
            IF d.size = 0
            THEN [d EXCEPT !.code = b, !.checksum = BitXor(@, b),
                           !.payload = <<>>, !.state = V1_CHECKSUM]
            ELSE [d EXCEPT !.code = b, !.checksum = BitXor(@, b),
                           !.payload = ByteArray(d.size), !.payload_idx = 0,
                           !.state = V1_PAYLOAD]
      [] d.state = V1_PAYLOAD ->
            [d EXCEPT !.payload[d.payload_idx + 1] = b,
                      !.payload_idx = @ + 1,
                      !.checksum = BitXor(@, b),
                      !.state = IF d.payload_idx + 1 = d.size
                                THEN V1_CHECKSUM ELSE @]
      [] d.state = V1_CHECKSUM ->
            IF ChecksumMatches(b, d.checksum)
            THEN Reset(Emit(d, 1))
            ELSE Reset(d)
      [] d.state = V2_FLAG ->
            [d EXCEPT !.v2_header = <<b>>, !.state = V2_CODE_LO]
      [] d.state = V2_CODE_LO ->
            [d EXCEPT !.code = b, !.v2_header = Append(@, b),
                      !.state = V2_CODE_HI]
      [] d.state = V2_CODE_HI ->
            [d EXCEPT !.code = BitOr(@, b * 256), !.v2_header = Append(@, b),
                      !.state = V2_LEN_LO]
      [] d.state = V2_LEN_LO ->
            [d EXCEPT !.size = b, !.v2_header = Append(@, b),
                      !.state = V2_LEN_HI]
      [] d.state = V2_LEN_HI ->
            LET size == BitOr(d.size, b * 256) IN
            IF size = 0
            THEN [d EXCEPT !.size = size, !.v2_header = Append(@, b),
                           !.payload = <<>>, !.state = V2_CHECKSUM]
            ELSE [d EXCEPT !.size = size, !.v2_header = Append(@, b),
                           !.payload = ByteArray(size), !.payload_idx = 0,
                           !.state = V2_PAYLOAD]
      [] d.state = V2_PAYLOAD ->
            [d EXCEPT !.payload[d.payload_idx + 1] = b,
                      !.payload_idx = @ + 1,
                      !.state = IF d.payload_idx + 1 = d.size
                                THEN V2_CHECKSUM ELSE @]
      [] d.state = V2_CHECKSUM ->
            IF ChecksumMatches(b, Crc8DvbS2(d.payload, Crc8DvbS2(d.v2_header, 0)))
            THEN Reset(Emit(d, 2))
            ELSE Reset(d)

\* FrameDecoder.feed, the loop "for byte in data: self._process(byte)".
RECURSIVE ProcessAll(_, _)
ProcessAll(d, data) ==
    IF data = <<>> THEN d ELSE ProcessAll(Process(d, Head(data)), Tail(data))

\* Mutant: every call of feed starts from a decoder that was reset.
FeedAfterReset(d, data) == ProcessAll(Reset(d), data)

\* FrameDecoder.feed(data)
Feed(d, data) == ProcessAll(d, data)

\* A frame as the flight controller sends it: the direction byte is '>'.
FromFcFrame(frame) == [frame EXCEPT ![3] = FromFc]

\* byte ^ (1 << bit)
FlipBit(byte, bit) == BitXor(byte, 2 ^ bit)

\* Sequences over a set of bytes, up to a length.
SeqsUpTo(S, n) == UNION {[1..k -> S] : k \in 0..n}

\* data contains the bytes of pattern, one after the other.
Contains(data, pattern) ==
    \E i \in 1..Len(data) :
        /\ i + Len(pattern) - 1 <= Len(data)
        /\ SubSeq(data, i, i + Len(pattern) - 1) = pattern

\* Nothing is fed to a decoder.
NoWire ==
    [is |-> "none", version |-> 0, code |-> 0, payload |-> <<>>,
     garbage |-> <<>>, bit |-> 0, input |-> <<>>, fed |-> 0]

\* ------------------------------------------------ manifest.json on the disk
\* json.dumps(manifest, indent=2).encode(): the text of a manifest, one
\* token for each field that varies, closed by the final brace.
JsonDumps(m) ==
    <<m.sha256, m.bytes, IF m.erase_attempted THEN 1 ELSE 0,
      IF m.erase_completed THEN 1 ELSE 0, -1>>

\* json.loads(path.read_text()): the manifest a text stands for; a text that
\* does not run up to its closing brace raises JSONDecodeError.
JsonLoads(text) ==
    IF Len(text) = 5 /\ text[5] = -1
    THEN [ok |-> TRUE,
          data |-> [written |-> TRUE, sha256 |-> text[1], bytes |-> text[2],
                    erase_attempted |-> text[3] = 1,
                    erase_completed |-> text[4] = 1]]
    ELSE [ok |-> FALSE, data |-> NoManifest]

\* A path that does not exist, and a file with its content.
NoFile == [exists |-> FALSE, text |-> <<>>]
File(text) == [exists |-> TRUE, text |-> text]

\* os.open(path, O_WRONLY | O_CREAT | O_TRUNC): the file exists and is empty.
OpenTruncate(f) == File(<<>>)

\* os.write(fd, text) on the file just opened.
OsWrite(f, text) == File(f.text \o text)

\* What the disk holds of a file whose process died before os.fsync
\* returned: the bytes written need not all have reached it.
Unsynced(f) == {File(SubSeq(f.text, 1, n)) : n \in 0..Len(f.text)}

\* What is on the disk after the process died in a manifest call: before
\* os.open nothing was touched; after it the file is cut to nothing, and
\* what os.write added is there in part or in full.  Until the fsync, a
\* loss of power may also leave what was there before the call.
AfterCrash(io) ==
    CASE io.at = "start" -> {io.file}
      [] io.at = "opened" -> {io.file, io.before}
      [] io.at = "written" -> Unsynced(io.file) \cup {io.before}

\* No manifest call is under way; there is no manifest.json yet.
NoManifestIo ==
    [call |-> "none", at |-> "idle", file |-> NoFile, text |-> <<>>,
     before |-> NoFile]

\* --------------------------------------------------------- make_session_dir
\* fc_info.uid[:8] if fc_info.uid != 'unknown' else 'unknown'
UnknownUid == <<0, 0, 0, 0, 0, 0, 0>>
UidShort(uid) == IF uid # UnknownUid THEN SubSeq(uid, 1, Min(8, Len(uid))) ELSE UnknownUid

\* datetime.now().strftime('%Y-%m-%d_%H%M%S'): the clock, cut to the second.
Timestamp(now) == now \div TicksPerSecond

\* make_session_dir: storage_root / fc_BTFL_uid-<uid8> / <timestamp>
SessionDir(uid, now) == <<UidShort(uid), Timestamp(now)>>

\* Session directories of a storage root nothing was synced to.
NoSessions == [now |-> 0, dirs |-> {}, made |-> <<>>]

\* ------------------------------------------------------------ msp/client.py
\* dict: a function on the keys it holds.
\* None where a frame is looked for.
NoFrame == MSPFrame(0, 0, 0, <<>>)
EmptyDict == [k \in {} |-> NoFrame]
DictSet(d, k, v) == [x \in DOMAIN d \cup {k} |-> IF x = k THEN v ELSE d[x]]
\* Mutant: the frame looked at stays in the dict.
DictPopKeeps(d, k) == d

\* d.pop(k, None), the dict that is left
DictPop(d, k) == [x \in DOMAIN d \ {k} |-> d[x]]
DictGet(d, k) == IF k \in DOMAIN d THEN d[k] ELSE NoFrame

\* for f in frames: self._pending[f.code] = f
RECURSIVE Drain(_, _)
Drain(pending, frames) ==
    IF frames = <<>> THEN pending
    ELSE Drain(DictSet(pending, Head(frames).code, Head(frames)), Tail(frames))

\* Mutant: a frame of the code asked for is returned whatever its direction.
IsResponseAnyDirection(frame) == frame # NoFrame

\* receive: frame is not None and frame.direction == ord('>')
IsResponse(frame) == frame # NoFrame /\ frame.direction = FromFc

\* Mutant: request leaves the pending dict as it is.
FlushPendingNothing(pending, code) == pending

\* request: self._pending.pop(code, None)
FlushPending(pending, code) == DictPop(pending, code)

\* request: self._decoder.frames = [f for f in self._decoder.frames if f.code != code]
FlushDecoder(d, code) ==
    [d EXCEPT !.frames = SelectSeq(@, LAMBDA f : f.code # code)]

\* The elements of a sequence.
Range(s) == {s[i] : i \in 1..Len(s)}

\* MSPClient.__init__, with the serial line and the call in progress.
NoClient ==
    [pending |-> EmptyDict, stream |-> <<>>, taken |-> 0, at |-> "idle",
     via |-> NoValue, code |-> 0, clock |-> 0, deadline |-> 0, polls |-> 0,
     result |-> NoFrame, raised |-> NoValue, ncalls |-> 0,
     decoded |-> <<>>, consumed |-> {}, stale |-> {},
     before |-> EmptyDict]

\* ------------------------------------------------------------ fc/detector.py
\* b'BTFL'
BTFL_VARIANT == <<66, 84, 70, 76>>

\* Mutant: the first two bytes of the variant decide.
VariantIsBtflByTwoBytes(variant) ==
    SubSeq(variant, 1, Min(2, Len(variant))) = SubSeq(BTFL_VARIANT, 1, 2)

\* variant[:4] != BTFL_VARIANT, negated
VariantIsBtfl(variant) == SubSeq(variant, 1, Min(4, Len(variant))) = BTFL_VARIANT

\* FCInfo
FCInfo(api_major, api_minor, variant, uid, blackbox_device) ==
    [api_major |-> api_major, api_minor |-> api_minor, variant |-> variant,
     uid |-> uid, blackbox_device |-> blackbox_device]

\* No FCInfo is returned.
NoInfo == FCInfo(-1, -1, <<>>, NoValue, -1)

\* What a client call was answered: not asked, a value, an MSPError or
\* another exception.
NotAsked == [o |-> "not_asked", value |-> NoValue]
Answer(o, value) == [o |-> o, value |-> IF o = "ok" THEN value ELSE NoValue]

\* detect_fc is entered.
NoDetect ==
    [at |-> "api_version", queried |-> <<>>,
     major |-> -1, minor |-> -1, variant |-> <<>>, uid |-> NoValue,
     blackbox_device |-> -1,
     raised |-> NoValue, info |-> NoInfo,
     answers |-> [api_version |-> NotAsked, fc_variant |-> NotAsked,
                  uid |-> NotAsked, blackbox_config |-> NotAsked]]

\* --------------------------------------------------------- led/controller.py
LEDStates ==
    {"OFF", "SYNCING", "VERIFYING", "ERASING", "SUCCESS", "ALREADY_EMPTY",
     "ERROR_GENERAL", "ERROR_DISCONNECTED"}

\* [step] * n
Times(step, n) == [i \in 1..n |-> step]

\* _PATTERNS: the (on_ms, off_ms) steps of a state and whether they repeat.
PATTERNS ==
    [OFF |-> [steps |-> <<>>, repeat |-> FALSE],
     SYNCING |-> [steps |-> <<<<100, 100>>>>, repeat |-> TRUE],
     VERIFYING |-> [steps |-> <<<<250, 250>>>>, repeat |-> TRUE],
     ERASING |-> [steps |-> <<<<800, 200>>>>, repeat |-> TRUE],
     SUCCESS |-> [steps |-> <<<<50, 50>>, <<50, 50>>, <<50, 50>>, <<2000, 1>>>>,
                  repeat |-> FALSE],
     ALREADY_EMPTY |-> [steps |-> <<<<500, 500>>, <<500, 500>>>>, repeat |-> FALSE],
     ERROR_GENERAL |->
        [steps |-> Times(<<150, 150>>, 3) \o Times(<<400, 150>>, 3)
                   \o Times(<<150, 150>>, 3) \o <<<<700, 700>>>>,
         repeat |-> TRUE],
     ERROR_DISCONNECTED |-> [steps |-> <<<<50, 50>>, <<50, 50>>, <<50, 50>>>>,
                             repeat |-> TRUE]]

\* _interruptible_sleep: the longest wait on the event, in ms.
SLICE_MS == 50

\* Mutant: a change of state is never seen.
StateChangedNever(current, original) == FALSE

\* _state_changed(original)
StateChanged(current, original) == current # original

\* The next line of the worker when a delay is over: the off half of the
\* step, the next step, the pattern again or its end.
AfterOn(w) == [w EXCEPT !.pc = "off"]

AfterOff(w) ==
    LET p == PATTERNS[w.state] IN
    IF w.i < Len(p.steps) THEN [w EXCEPT !.pc = "check", !.i = @ + 1]
    ELSE IF p.repeat THEN [w EXCEPT !.pc = "check", !.i = 1]
    ELSE [w EXCEPT !.pc = "final_off"]

\* _interruptible_sleep(seconds, state) is entered: with nothing to sleep
\* the loop is not entered and False is returned.
Sleep(w, delay, ms) ==
    IF ms > 0 THEN [w EXCEPT !.pc = delay, !.left = ms]
    ELSE IF delay = "sleep_on" THEN AfterOn(w) ELSE AfterOff(w)

\* No worker thread yet.
NoWorker == [pc |-> "none", state |-> "OFF", i |-> 0, left |-> 0]

\* LEDController.__init__, the LED dark, and the thread that calls it.
NoLed ==
    [state |-> "OFF", event |-> FALSE, idle_event |-> FALSE, running |-> FALSE,
     raw |-> FALSE, w |-> NoWorker, caller |-> "made", waited |-> NoValue,
     asked |-> "OFF", interrupted |-> FALSE, overslept |-> FALSE,
     preempted |-> FALSE, unchanged_since_read |-> TRUE, plays |-> 0,
     completed |-> FALSE, wrote_after_stop |-> FALSE]

\* ------------------------------------------------------------ web/server.py
\* The characters a session_id is made of: the separator, the dot, a
\* letter of a directory name and a letter of a symbolic link's name.
IdChars == {"/", ".", "f", "l"}

\* The directory make_session_dir creates, below storage_root: the
\* controller's directory and the session's in it.
FcDir == <<"f">>
SessionName == <<"f">>

\* The name of a symbolic link in storage_root that leads out of it.
LinkName == <<"l">>

\* session_id.split('/')
RECURSIVE Split(_)
Split(s) ==
    IF s = <<>> THEN << <<>> >>
    ELSE LET r == Split(Tail(s)) IN
         IF Head(s) = "/" THEN << <<>> >> \o r
         ELSE << <<Head(s)>> \o Head(r) >> \o Tail(r)

\* '..' in name
HasDotDot(name) ==
    \E i \in 1..(Len(name) - 1) : name[i] = "." /\ name[i + 1] = "."

\* path / name: an empty name and '.' add nothing to a path.
JoinPath(path, name) ==
    IF name \in {<<>>, <<".">>} THEN path ELSE Append(path, name)

\* path.resolve().relative_to(storage.resolve()) raises ValueError: the
\* path goes through the link that leads out of storage_root.
ResolvesOutside(path, link) == link /\ Len(path) >= 1 /\ path[1] = LinkName

\* _resolve_session_path(storage, session_id): the path below storage_root,
\* or the status of the _HTTPError.
ResolveSessionPath(session_id, link) ==
    LET parts == Split(session_id) IN
    IF Len(parts) # 2 THEN [code |-> 400, path |-> <<>>]
    ELSE IF HasDotDot(parts[1]) \/ HasDotDot(parts[2])
    THEN [code |-> 400, path |-> <<>>]
    ELSE LET path == JoinPath(JoinPath(<<>>, parts[1]), parts[2]) IN
         IF ResolvesOutside(path, link) THEN [code |-> 400, path |-> <<>>]
         ELSE [code |-> 0, path |-> path]

\* p is path or lies below it.
IsBelow(p, path) == Len(p) >= Len(path) /\ SubSeq(p, 1, Len(path)) = path

\* shutil.rmtree(path): what is left of the directories.
RmTree(dirs, path) == {p \in dirs : ~IsBelow(p, path)}

\* _SESSIONS_TTL, in seconds
SESSIONS_TTL == 10

\* _sessions_cache: tuple[float, list] = (0.0, [])
NoSessionsCache == [ts |-> 0, data |-> {}]

\* A request thread of _ThreadedHTTPServer that serves no request.
NoRequest == [at |-> "idle", ts |-> 0, data |-> {}, id |-> 0, deleted |-> {}]

\* The server as it starts: the sessions on the storage, the cache, the
\* monotonic clock, one thread per GET and one for DELETE, and the sessions
\* a DELETE has answered deleted.
NoServer ==
    [stored |-> {}, sessions_cache |-> NoSessionsCache, now |-> 0,
     get |-> [t \in 1..MaxGetThreads |-> NoRequest], del |-> NoRequest,
     deleted |-> {}]

\* The storage as the server finds it: storage_root exists and is empty,
\* no request was answered.  The directories are paths below storage_root,
\* storage_root itself the empty path.
NoWeb ==
    [dirs |-> {<<>>}, link |-> FALSE, session_id |-> <<>>, code |-> 0,
     removed |-> {}, srv |-> NoServer]

\* ------------------------------------------------------ storage/writer.py
\* The values of the bytes handed to a StreamWriter on its own.
SwBytes == {0, 1}

\* verify_against_file() was not called.
NoVerdict ==
    [called |-> FALSE, closed |-> FALSE, match |-> FALSE, file_sha256 |-> Sha256Init,
     content |-> <<>>, passed |-> <<>>]

\* StreamWriter(path): no file yet, nothing passed to write.  buffer is
\* what file.write took and the file object has not written out.
NoStreamWriter ==
    [w |-> NewWriter, buffer |-> <<>>, d |-> [bbl_exists |-> FALSE, bbl |-> <<>>],
     passed |-> <<>>, verified |-> NoVerdict, raised |-> NoValue, faults |-> 0]


NoRest ==
    /\ msp = NoClient
    /\ det = NoDetect
    /\ ledc = NoLed
    /\ web = NoWeb
    /\ sw = NoStreamWriter

\* ----------------------------------------------------------------- the run
\* The orchestrator before run() is called.
StartOfRun ==
    /\ pc = "open"
    /\ result = NoValue
    /\ client = [open |-> FALSE, inflight |-> <<>>]
    /\ loc = [fc_info |-> NoFcInfo, used_size |-> 0, address |-> 0,
              consecutive_errors |-> 0, data |-> <<>>, next_address |-> 0,
              match |-> "none", file_sha256 |-> 0, erase_ok |-> "none",
              polls |-> 0]
    /\ writer = NewWriter
    /\ disk = [storage_root |-> FALSE, session_dir |-> FALSE,
               bbl_exists |-> FALSE, bbl |-> <<>>, manifest |-> NoManifest]
    /\ led = "OFF"
    /\ status = [state |-> "idle", progress |-> 0]
    /\ calls = [api_version |-> 0, fc_variant |-> 0, uid |-> 0,
                blackbox_config |-> 0, summary |-> 0, read_request |-> 0,
                erase |-> 0]
    /\ hist = [nominal |-> TRUE, fail_streak |-> 0, gave_up |-> FALSE,
               read_failed |-> FALSE, recovered |-> FALSE,
               fc |-> [handshake_failed |-> FALSE, variant |-> "none", device |-> -1],
               caught_in_run |-> FALSE,
               summary |-> [supported |-> FALSE, ready |-> FALSE, used_size |-> 0,
                            total_size |-> FlashLen],
               summary_seen |-> FALSE, verified_at_erase |-> FALSE,
               disk_faults |-> 0,
               manifest_writes |-> 0, manifest_updates |-> 0,
               poll_confirmed |-> FALSE, poll_error_skipped |-> FALSE]

Init ==
    /\ cfg \in [dry_run : BOOLEAN, erase_after_sync : BOOLEAN,
                flash_chunk_size : 1..MaxChunk, min_free_space : {1}]
    /\ flash \in Flashes
    /\ StartOfRun
    /\ manifest_io = NoManifestIo
    /\ sessions = NoSessions
    /\ decoder = NewDecoder
    /\ wire = NoWire
    /\ NoRest

\* _set_status(state, progress=0)
SetStatus(state, progress) == status' = [state |-> state, progress |-> progress]

\* A return from inside the with block: the LED and status updates that
\* precede it, the result, and the client's __exit__.
Return(res, led_state, state, c) ==
    /\ pc' = "done"
    /\ result' = res
    /\ led' = led_state
    /\ SetStatus(state, 0)
    /\ client' = MSPClientExit(c)

\* Mutant: an ERROR return that leaves the status at idle.
ReturnErrorStatusIdle(c) == Return("ERROR", "ERROR_GENERAL", "idle", c)

\* Every ERROR return of _run: LED=ERROR_GENERAL, status=error.
ReturnError(c) == Return("ERROR", "ERROR_GENERAL", "error", c)

\* run(): an exception that leaves _run is caught; the with block has
\* released the client on the way out.
RunCatches(c, h) ==
    /\ ReturnError(c)
    /\ hist' = [h EXCEPT !.caught_in_run = TRUE, !.nominal = FALSE]

Count(name) == calls' = [calls EXCEPT ![name] = Min(@ + 1, CallCap)]

\* detect_fc raised (FCNotBetaflight, FCSDCardBlackbox, FCDetectionError):
\* _run logs it and returns ERROR.
DetectionFails(h) ==
    /\ ReturnError(client)
    /\ hist' = h

\* run, up to the with statement: status 'identifying', then MSPClient.open.
OpenPort ==
    /\ pc = "open"
    /\ \E ok \in BOOLEAN :
        IF ok
        THEN /\ client' = [client EXCEPT !.open = TRUE]
             /\ SetStatus("identifying", 0)
             /\ pc' = "api_version"
             /\ UNCHANGED <<result, led, hist>>
        ELSE RunCatches(client, hist)
    /\ UNCHANGED <<apart, cfg, flash, loc, writer, disk, calls>>

\* detect_fc: client.get_api_version()
DetectApiVersion ==
    /\ pc = "api_version"
    /\ Count("api_version")
    /\ \E o \in ClientOutcomes :
        CASE o = "ok" ->
                /\ pc' = "fc_variant"
                /\ UNCHANGED <<result, client, led, status, hist>>
          [] o = "msp_error" ->
                DetectionFails([hist EXCEPT !.fc.handshake_failed = TRUE])
          [] OTHER -> RunCatches(client, hist)
    /\ UNCHANGED <<apart, cfg, flash, loc, writer, disk>>

\* detect_fc: client.get_fc_variant() and the BTFL check
DetectVariant ==
    /\ pc = "fc_variant"
    /\ Count("fc_variant")
    /\ \E o \in ClientOutcomes, variant \in Variants :
        CASE o = "ok" /\ IsBetaflight(variant) ->
                /\ pc' = "uid"
                /\ loc' = [loc EXCEPT !.fc_info.variant = variant]
                /\ hist' = [hist EXCEPT !.fc.variant = variant]
                /\ UNCHANGED <<result, client, led, status>>
          [] o = "ok" /\ ~IsBetaflight(variant) ->
                /\ DetectionFails([hist EXCEPT !.fc.variant = variant])
                /\ loc' = loc
          [] o = "msp_error" ->
                /\ DetectionFails([hist EXCEPT !.fc.handshake_failed = TRUE])
                /\ loc' = loc
          [] OTHER ->
                /\ RunCatches(client, hist)
                /\ loc' = loc
    /\ UNCHANGED <<apart, cfg, flash, writer, disk>>

\* detect_fc: client.get_uid(); an MSP error leaves uid 'unknown'
DetectUid ==
    /\ pc = "uid"
    /\ Count("uid")
    /\ \E o \in ClientOutcomes, uid \in Uids :
        CASE o = "ok" ->
                /\ pc' = "blackbox_config"
                /\ loc' = [loc EXCEPT !.fc_info.uid = uid]
                /\ UNCHANGED <<result, client, led, status, hist>>
          [] o = "msp_error" ->
                /\ pc' = "blackbox_config"
                /\ loc' = [loc EXCEPT !.fc_info.uid = "unknown"]
                /\ UNCHANGED <<result, client, led, status, hist>>
          [] OTHER ->
                /\ RunCatches(client, hist)
                /\ loc' = loc
    /\ UNCHANGED <<apart, cfg, flash, writer, disk>>

\* detect_fc: client.get_blackbox_config(), the SD card check, the FCInfo;
\* then _run step 3 begins with status 'querying'.
DetectBlackboxConfig ==
    /\ pc = "blackbox_config"
    /\ Count("blackbox_config")
    /\ \E o \in ClientOutcomes, dev \in Devices :
        LET device == IF o = "msp_error" THEN BLACKBOX_DEVICE_NONE ELSE dev
            h == IF o = "ok" THEN [hist EXCEPT !.fc.device = dev] ELSE hist
        IN
        CASE o = "exception" ->
                /\ RunCatches(client, hist)
                /\ loc' = loc
          [] o # "exception" /\ IsSDCard(device) ->
                /\ DetectionFails(h)
                /\ loc' = loc
          [] OTHER ->
                /\ pc' = "summary"
                /\ loc' = [loc EXCEPT !.fc_info.blackbox_device = device,
                                      !.fc_info.detected = TRUE]
                /\ SetStatus("querying", 0)
                /\ hist' = h
                /\ UNCHANGED <<result, client, led>>
    /\ UNCHANGED <<apart, cfg, flash, writer, disk>>

\* _run step 3: client.get_dataflash_summary() and the three checks on it.
QuerySummary ==
    /\ pc = "summary"
    /\ Count("summary")
    /\ \E o \in ClientOutcomes, summary \in Summaries :
        CASE o = "exception" ->
                /\ RunCatches(client, hist)
                /\ loc' = loc
          [] o = "msp_error" ->
                /\ ReturnError(client)
                /\ hist' = [hist EXCEPT !.nominal = FALSE]
                /\ loc' = loc
          [] o = "ok" /\ ~FlashUsable(summary) ->
                /\ ReturnError(client)
                /\ hist' = [hist EXCEPT !.summary = summary, !.summary_seen = TRUE]
                /\ loc' = loc
          [] o = "ok" /\ FlashUsable(summary) /\ FlashEmpty(summary) ->
                /\ Return("ALREADY_EMPTY", "ALREADY_EMPTY", "idle", client)
                /\ hist' = [hist EXCEPT !.summary = summary, !.summary_seen = TRUE]
                /\ loc' = loc
          [] OTHER ->
                /\ pc' = "storage"
                /\ loc' = [loc EXCEPT !.used_size = summary.used_size]
                /\ hist' = [hist EXCEPT !.summary = summary, !.summary_seen = TRUE]
                /\ UNCHANGED <<result, client, led, status>>
    /\ UNCHANGED <<apart, cfg, flash, writer, disk>>

\* _run step 4: mkdir of the storage root and the free-space check.
CheckStorage ==
    /\ pc = "storage"
    /\ \E available \in 0..(FlashLen + 1) :
        IF StorageShort(available, loc.used_size, cfg.min_free_space)
        THEN /\ ReturnError(client)
             /\ hist' = [hist EXCEPT !.nominal = FALSE]
        ELSE /\ pc' = "prepare"
             /\ UNCHANGED <<result, client, led, status, hist>>
    /\ disk' = [disk EXCEPT !.storage_root = TRUE]
    /\ UNCHANGED <<apart, cfg, flash, loc, writer, calls>>

\* _run step 5 and the head of step 6: make_session_dir, StreamWriter.open,
\* LED=SYNCING, status 'syncing', address = 0, consecutive_errors = 0.
PrepareOutput ==
    /\ pc = "prepare"
    /\ disk' = [disk EXCEPT !.session_dir = TRUE, !.bbl_exists = TRUE, !.bbl = <<>>]
    /\ writer' = WriterOpen(NewWriter)
    /\ led' = "SYNCING"
    /\ SetStatus("syncing", 0)
    /\ loc' = [loc EXCEPT !.address = 0, !.consecutive_errors = 0]
    /\ pc' = "first_request"
    /\ UNCHANGED <<apart, cfg, flash, result, client, calls, hist>>

\* The while condition of the read loop.
LoopContinues(address, used) == address < used

\* Where run() is after the loop condition has been looked at.
AfterChunk(address, used) == IF LoopContinues(address, used) THEN "receive" ELSE "close"

\* The read gives up: writer.abort(), LED=ERROR_GENERAL, status=error, ERROR.
ReadFails(c) ==
    /\ writer' = WriterAbort(writer)
    /\ disk' = DiskAfterAbort(disk)
    /\ ReturnError(c)

\* _run step 6, "Send first request (prime the pipeline)".
SendFirstRequest ==
    /\ pc = "first_request"
    /\ \E sent \in BOOLEAN :
        IF sent
        THEN /\ client' = SendFlashReadRequest(client, loc.address,
                    ChunkSize(cfg.flash_chunk_size, loc.used_size, loc.address))
             /\ Count("read_request")
             /\ pc' = AfterChunk(loc.address, loc.used_size)
             /\ UNCHANGED <<result, led, status, writer, disk, hist>>
        ELSE /\ ReadFails(client)
             /\ hist' = [hist EXCEPT !.read_failed = TRUE, !.nominal = FALSE]
             /\ calls' = calls
    /\ UNCHANGED <<apart, cfg, flash, loc>>

\* A failed receive attempt, by MSP error or by address mismatch, with the
\* request left on the wire being c.inflight: count it, give up at the
\* limit, otherwise re-send the request for the same window.
RetryOrGiveUp(c) ==
    LET n == loc.consecutive_errors + 1
        h == [hist EXCEPT !.fail_streak = @ + 1, !.nominal = FALSE]
    IN  /\ loc' = [loc EXCEPT !.consecutive_errors = n]
        /\ IF TooManyErrors(n)
           THEN /\ ReadFails(c)
                /\ hist' = [h EXCEPT !.gave_up = TRUE]
                /\ calls' = calls
           ELSE \E sent \in BOOLEAN :
                IF sent
                THEN /\ client' = SendFlashReadRequest(c, loc.address,
                            ChunkSize(cfg.flash_chunk_size, loc.used_size, loc.address))
                     /\ Count("read_request")
                     /\ pc' = "receive"
                     /\ hist' = h
                     /\ UNCHANGED <<result, led, status, writer, disk>>
                ELSE /\ ReadFails(c)
                     /\ hist' = [h EXCEPT !.read_failed = TRUE]
                     /\ calls' = calls

\* receive_flash_read_response raises MSPError (a timeout, a short or
\* undecodable response).  The answer to the oldest request is lost, or is
\* still on its way and arrives later.
RecvMSPError ==
    /\ pc = "receive"
    /\ \E late \in BOOLEAN :
        /\ late => Len(client.inflight) < MaxInflight
        /\ RetryOrGiveUp(IF late THEN client
                         ELSE [client EXCEPT !.inflight = Tail(@)])
    /\ UNCHANGED <<apart, cfg, flash>>

\* receive_flash_read_response raises something that is no MSPError.
RecvException ==
    /\ pc = "receive"
    /\ ReadFails(client)
    /\ hist' = [hist EXCEPT !.read_failed = TRUE, !.nominal = FALSE]
    /\ UNCHANGED <<apart, cfg, flash, loc, calls>>

\* A response arrives whose chunk_addr is not the expected address.
RecvMismatch ==
    /\ pc = "receive"
    /\ client.inflight # <<>>
    /\ \E resp \in Responses(Head(client.inflight)) :
        /\ AddressMismatch(resp.chunk_addr, loc.address)
        /\ RetryOrGiveUp([client EXCEPT !.inflight = Tail(@)])
    /\ UNCHANGED <<apart, cfg, flash>>

\* A response for the expected address with no data: end of data, break.
RecvEndOfData ==
    /\ pc = "receive"
    /\ client.inflight # <<>>
    /\ \E resp \in Responses(Head(client.inflight)) :
        /\ ~AddressMismatch(resp.chunk_addr, loc.address)
        /\ resp.data = <<>>
    /\ client' = [client EXCEPT !.inflight = Tail(@)]
    /\ pc' = "close"
    /\ hist' = [hist EXCEPT !.nominal = FALSE]
    /\ UNCHANGED <<apart, cfg, flash, result, loc, writer, disk, led, status, calls>>

\* A chunk for the expected address: reset the error count and send the
\* request for the next window before the chunk is written.
RecvChunk ==
    /\ pc = "receive"
    /\ client.inflight # <<>>
    /\ \E resp \in Responses(Head(client.inflight)) :
        /\ ~AddressMismatch(resp.chunk_addr, loc.address)
        /\ resp.data # <<>>
        /\ LET c == [client EXCEPT !.inflight = Tail(@)]
               next_address == loc.address + Len(resp.data)
               h == [hist EXCEPT
                        !.nominal = @ /\ resp = HonestResponse(Head(client.inflight)),
                        !.recovered = @ \/ hist.fail_streak = 4,
                        !.fail_streak = 0]
               l == [loc EXCEPT
                        !.consecutive_errors = ErrorsAfterChunk(@),
                        !.data = resp.data,
                        !.next_address = next_address]
           IN  /\ loc' = l
               /\ IF MoreToRead(next_address, loc.used_size)
                  THEN \E sent \in BOOLEAN :
                       IF sent
                       THEN /\ client' = SendFlashReadRequest(c, next_address,
                                   ChunkSize(cfg.flash_chunk_size, loc.used_size, next_address))
                            /\ Count("read_request")
                            /\ pc' = "write"
                            /\ hist' = h
                            /\ UNCHANGED <<result, led, status, writer, disk>>
                       ELSE /\ ReadFails(c)
                            /\ hist' = [h EXCEPT !.read_failed = TRUE, !.nominal = FALSE]
                            /\ calls' = calls
                  ELSE /\ client' = c
                       /\ pc' = "write"
                       /\ hist' = h
                       /\ UNCHANGED <<result, led, status, writer, disk, calls>>
    /\ UNCHANGED <<apart, cfg, flash>>

\* writer.write(data); address = next_address; progress is published.
WriteChunk ==
    /\ pc = "write"
    /\ \E stored \in DiskStores(loc.data) :
        /\ stored # loc.data => hist.disk_faults < MaxDiskFaults
        /\ disk' = [disk EXCEPT !.bbl = @ \o stored]
        /\ hist' = [hist EXCEPT !.nominal = @ /\ stored = loc.data,
                                !.disk_faults = IF stored = loc.data THEN @ ELSE @ + 1]
    /\ writer' = WriterWrite(writer, loc.data)
    /\ loc' = [loc EXCEPT !.address = loc.next_address, !.data = <<>>]
    /\ SetStatus("syncing", Progress(loc.next_address, loc.used_size))
    /\ pc' = AfterChunk(loc.next_address, loc.used_size)
    /\ UNCHANGED <<apart, cfg, flash, result, client, led, calls>>

\* After the loop: writer.close(), LED=VERIFYING, status 'verifying', and
\* the size gate of step 7.
CloseWriter ==
    /\ pc = "close"
    /\ writer' = WriterClose(writer)
    /\ IF SizeMismatch(writer.bytes_written, loc.used_size)
       THEN ReturnError(client)
       ELSE /\ pc' = "verify"
            /\ led' = "VERIFYING"
            /\ SetStatus("verifying", 0)
            /\ UNCHANGED <<result, client>>
    /\ UNCHANGED <<apart, cfg, flash, loc, disk, calls, hist>>

\* Step 7: writer.verify_against_file() and the hash gate.
VerifyFile ==
    /\ pc = "verify"
    /\ LET match == VerifyMatch(writer, disk) IN
        /\ loc' = [loc EXCEPT !.match = IF match THEN "yes" ELSE "no",
                              !.file_sha256 = FileSha256(disk)]
        /\ IF ~match
           THEN ReturnError(client)
           ELSE /\ pc' = "manifest"
                /\ UNCHANGED <<result, client, led, status>>
    /\ UNCHANGED <<apart, cfg, flash, writer, disk, calls, hist>>

\* Step 8: write_manifest; then the two ways step 9 skips the erase, or
\* LED=ERASING and status 'erasing'.
WriteManifestStep ==
    /\ pc = "manifest"
    /\ disk' = [disk EXCEPT !.manifest =
                    WriteManifest(loc.file_sha256, loc.used_size, FALSE, FALSE)]
    /\ IF SkipEraseDryRun(cfg)
       THEN Return("DRY_RUN", "SUCCESS", "idle", client)
       ELSE IF SkipEraseConfig(cfg)
       THEN Return("SUCCESS", "SUCCESS", "idle", client)
       ELSE /\ pc' = "erase"
            /\ led' = "ERASING"
            /\ SetStatus("erasing", 0)
            /\ UNCHANGED <<result, client>>
    /\ hist' = [hist EXCEPT !.manifest_writes = @ + 1]
    /\ UNCHANGED <<apart, cfg, flash, loc, writer, calls>>

\* _wait_for_erase: client.erase_flash() and the deadline.
SendErase ==
    /\ pc = "erase"
    /\ Count("erase")
    /\ LET h == [hist EXCEPT !.verified_at_erase =
                    loc.match = "yes" /\ writer.bytes_written = loc.used_size]
       IN \E sent \in BOOLEAN :
           IF sent
           THEN /\ pc' = "poll"
                /\ hist' = h
                /\ UNCHANGED <<result, client, led, status>>
           ELSE RunCatches(client, h)
    /\ loc' = [loc EXCEPT !.polls = 0]
    /\ UNCHANGED <<apart, cfg, flash, writer, disk>>

\* _wait_for_erase returned erase_ok: update_manifest_erase, then ERROR on a
\* timeout and SUCCESS (step 10) otherwise.
EraseReturns(erase_ok, h) ==
    /\ loc' = [loc EXCEPT !.erase_ok = IF erase_ok THEN "yes" ELSE "no"]
    /\ disk' = [disk EXCEPT !.manifest = UpdateManifestErase(@, erase_ok)]
    /\ hist' = [h EXCEPT !.manifest_updates = @ + 1]
    /\ IF ~erase_ok
       THEN ReturnError(client)
       ELSE Return("SUCCESS", "SUCCESS", "idle", client)

\* _wait_for_erase: one poll of get_dataflash_summary before the deadline.
PollErase ==
    /\ pc = "poll"
    /\ loc.polls < MaxPolls
    /\ Count("summary")
    /\ \E o \in ClientOutcomes, summary \in Summaries :
        CASE o = "exception" ->
                /\ RunCatches(client, hist)
                /\ UNCHANGED <<loc, disk>>
          [] o = "ok" /\ EraseConfirmed(summary) ->
                /\ EraseReturns(TRUE, [hist EXCEPT !.poll_confirmed =
                        @ \/ (summary.used_size = 0 /\ summary.ready)])
          [] OTHER ->
                /\ loc' = [loc EXCEPT !.polls = @ + 1]
                /\ hist' = [hist EXCEPT
                        !.nominal = @ /\ o = "ok",
                        !.poll_confirmed = @ \/ (o = "ok" /\ summary.used_size = 0
                                                 /\ summary.ready),
                        !.poll_error_skipped = @ \/ o = "msp_error"]
                /\ UNCHANGED <<pc, result, client, led, status, disk>>
    /\ UNCHANGED <<apart, cfg, flash, writer>>

\* _wait_for_erase: the deadline has passed; it returns False.
EraseTimesOut ==
    /\ pc = "poll"
    /\ EraseReturns(FALSE, hist)
    /\ UNCHANGED <<apart, cfg, flash, writer, calls>>

Next ==
    \/ OpenPort
    \/ DetectApiVersion
    \/ DetectVariant
    \/ DetectUid
    \/ DetectBlackboxConfig
    \/ QuerySummary
    \/ CheckStorage
    \/ PrepareOutput
    \/ SendFirstRequest
    \/ RecvMSPError
    \/ RecvException
    \/ RecvMismatch
    \/ RecvEndOfData
    \/ RecvChunk
    \/ WriteChunk
    \/ CloseWriter
    \/ VerifyFile
    \/ WriteManifestStep
    \/ SendErase
    \/ PollErase
    \/ EraseTimesOut

Spec == Init /\ [][Next]_vars

\* ------------------------------------------------------------------- types
TypeOK ==
    /\ pc \in {"open", "api_version", "fc_variant", "uid", "blackbox_config",
               "summary", "storage", "prepare", "first_request", "receive",
               "write", "close", "verify", "manifest", "erase", "poll", "done"}
    /\ result \in {NoValue, "SUCCESS", "ALREADY_EMPTY", "ERROR", "DRY_RUN"}
    /\ (pc = "done") = (result # NoValue)
    /\ Len(client.inflight) <= MaxInflight
    /\ pc = "receive" => client.inflight # <<>>
    /\ loc.consecutive_errors \in 0..MAX_CONSECUTIVE_ERRORS
    /\ writer.file \in {"none", "open", "closed"}

\* ------------------------------------------- the manifest calls, with a crash

NoRun ==
    /\ cfg = [dry_run |-> FALSE, erase_after_sync |-> TRUE,
              flash_chunk_size |-> 1, min_free_space |-> 1]
    /\ flash = [i \in 1..FlashLen |-> i - 1]
    /\ StartOfRun

InitManifest ==
    /\ NoRun
    /\ manifest_io = NoManifestIo
    /\ sessions = NoSessions
    /\ decoder = NewDecoder
    /\ wire = NoWire
    /\ NoRest

\* write_manifest is called for a verified file: the manifest is built and
\* serialised; nothing is on the disk yet.
CallWriteManifest ==
    /\ manifest_io.call = "none"
    /\ \E f \in Flashes, used_size \in 1..FlashLen :
        manifest_io' = [manifest_io EXCEPT
            !.call = "write_manifest",
            !.at = "start",
            !.before = manifest_io.file,
            !.text = JsonDumps(WriteManifest(Sha256(SubSeq(f, 1, used_size)),
                                             used_size, FALSE, FALSE))]
    /\ UNCHANGED <<run, rest, sessions, decoder, wire>>

\* update_manifest_erase is called after write_manifest returned: the file
\* is read and parsed, the two erase fields are set.  An OSError or a
\* JSONDecodeError is logged and nothing is written.
CallUpdateManifestErase ==
    /\ manifest_io.call = "write_manifest"
    /\ manifest_io.at = "idle"
    /\ \E erase_completed \in BOOLEAN :
        LET loaded == JsonLoads(manifest_io.file.text) IN
        IF manifest_io.file.exists /\ loaded.ok
        THEN manifest_io' = [manifest_io EXCEPT
                !.call = "update_manifest_erase",
                !.at = "start",
                !.before = manifest_io.file,
                !.text = JsonDumps(UpdateManifestErase(loaded.data, erase_completed))]
        ELSE manifest_io' = [manifest_io EXCEPT
                !.call = "update_manifest_erase",
                !.before = manifest_io.file]
    /\ UNCHANGED <<run, rest, sessions, decoder, wire>>

\* os.open(str(path), os.O_WRONLY | os.O_CREAT | os.O_TRUNC)
ManifestOpen ==
    /\ manifest_io.at = "start"
    /\ manifest_io' = [manifest_io EXCEPT !.file = OpenTruncate(@), !.at = "opened"]
    /\ UNCHANGED <<run, rest, sessions, decoder, wire>>

\* os.write(fd, json.dumps(...).encode())
ManifestWrite ==
    /\ manifest_io.at = "opened"
    /\ manifest_io' = [manifest_io EXCEPT !.file = OsWrite(@, manifest_io.text),
                                          !.at = "written"]
    /\ UNCHANGED <<run, rest, sessions, decoder, wire>>

\* os.fsync(fd); os.close(fd); the call returns.
ManifestFsyncClose ==
    /\ manifest_io.at = "written"
    /\ manifest_io' = [manifest_io EXCEPT !.at = "idle"]
    /\ UNCHANGED <<run, rest, sessions, decoder, wire>>

\* The process dies inside a manifest call (power is cut, the service is
\* killed).  What was written and not yet synced may be on the disk in part.
ProcessDies ==
    /\ manifest_io.at \in {"start", "opened", "written"}
    /\ \E f \in AfterCrash(manifest_io) :
        manifest_io' = [manifest_io EXCEPT !.file = f, !.at = "crashed"]
    /\ UNCHANGED <<run, rest, sessions, decoder, wire>>

NextManifest ==
    \/ CallWriteManifest
    \/ CallUpdateManifestErase
    \/ ManifestOpen
    \/ ManifestWrite
    \/ ManifestFsyncClose
    \/ ProcessDies

SpecManifest == InitManifest /\ [][NextManifest]_vars

\* ------------------------------------------------- session directories made
SessionUids ==
    {[i \in 1..9 |-> 1], [i \in 1..9 |-> IF i = 9 THEN 2 ELSE 1], UnknownUid}

InitSessions ==
    /\ NoRun
    /\ manifest_io = NoManifestIo
    /\ sessions = NoSessions
    /\ decoder = NewDecoder
    /\ wire = NoWire
    /\ NoRest

\* Time passes.
ClockTicks ==
    /\ sessions.now < MaxClock
    /\ sessions' = [sessions EXCEPT !.now = @ + 1]
    /\ UNCHANGED <<run, rest, manifest_io, decoder, wire>>

\* A sync reaches step 5: make_session_dir(storage_root, fc_info), with
\* session_dir.mkdir(parents=True, exist_ok=True).
MakeSessionDir ==
    /\ Len(sessions.made) < MaxSyncs
    /\ \E uid \in SessionUids :
        LET session_dir == SessionDir(uid, sessions.now) IN
        sessions' = [sessions EXCEPT
            !.dirs = @ \cup {session_dir},
            !.made = Append(@, [uid |-> uid, now |-> sessions.now,
                                existed |-> session_dir \in sessions.dirs,
                                session_dir |-> session_dir])]
    /\ UNCHANGED <<run, rest, manifest_io, decoder, wire>>

NextSessions ==
    \/ ClockTicks
    \/ MakeSessionDir

SpecSessions == InitSessions /\ [][NextSessions]_vars

\* ------------------------------------------------ bytes through the decoder
V1Codes == {0, 255}
V2Codes == {0, 4660, 65535}
PayloadBytes == {36, 255}
GarbageBytes == {Dollar, LetterM, LetterX, ToFc}

\* The bytes of the frame a wire case is about, as the FC sends it.
FrameBytes(version, code, payload) ==
    FromFcFrame(IF version = 1 THEN EncodeV1(code, payload)
                ELSE EncodeV2(code, payload))

\* Noise that holds no $M< and no $X<.
Garbage ==
    {g \in SeqsUpTo(GarbageBytes, MaxGarbage) :
        /\ g # <<>>
        /\ ~Contains(g, <<Dollar, LetterM, ToFc>>)
        /\ ~Contains(g, <<Dollar, LetterX, ToFc>>)}

\* What is fed: a frame, a frame with one bit of its checksum byte flipped,
\* or noise and then a frame.
Wire(is, version, code, payload, garbage, bit) ==
    LET frame == FrameBytes(version, code, payload) IN
    [is |-> is, version |-> version, code |-> code, payload |-> payload,
     garbage |-> garbage, bit |-> bit, fed |-> 0,
     input |-> CASE is = "frame" -> frame
                 [] is = "flipped" ->
                        [frame EXCEPT ![Len(frame)] = FlipBit(@, bit)]
                 [] is = "garbage" -> garbage \o frame]

\* The codes a frame of a version can carry.
Codes(version) == IF version = 1 THEN V1Codes ELSE V2Codes

InitFraming ==
    /\ NoRun
    /\ manifest_io = NoManifestIo
    /\ sessions = NoSessions
    /\ decoder = NewDecoder
    /\ NoRest
    /\ \E v \in {1, 2} :
       \E code \in Codes(v), payload \in SeqsUpTo(PayloadBytes, MaxPayload) :
          \/ wire = Wire("frame", v, code, payload, <<>>, 0)
          \/ \E bit \in 0..7 : wire = Wire("flipped", v, code, payload, <<>>, bit)
          \/ \E g \in Garbage : wire = Wire("garbage", v, code, payload, g, 0)

\* The next bytes of the input are handed to feed(), however many arrive.
FeedSome ==
    /\ wire.fed < Len(wire.input)
    /\ \E n \in 1..Min(MaxFeed, Len(wire.input) - wire.fed) :
        /\ decoder' = Feed(decoder, SubSeq(wire.input, wire.fed + 1, wire.fed + n))
        /\ wire' = [wire EXCEPT !.fed = @ + n]
    /\ UNCHANGED <<run, rest, manifest_io, sessions>>

NextFraming ==
    \/ FeedSome

SpecFraming == InitFraming /\ [][NextFraming]_vars


\* ------------------------------------------------ the client's receive path
ClientCodes == {1, 2}
Directions == {FromFc, ToFc}

\* The frames the flight controller sends, the k-th with payload k.
RECURSIVE StreamOf(_, _)
StreamOf(heads, k) ==
    IF heads = <<>> THEN <<>>
    ELSE [EncodeV1(Head(heads).code, <<k>>) EXCEPT ![3] = Head(heads).direction]
         \o StreamOf(Tail(heads), k + 1)

InitClient ==
    /\ NoRun
    /\ manifest_io = NoManifestIo
    /\ sessions = NoSessions
    /\ decoder = NewDecoder
    /\ wire = NoWire
    /\ det = NoDetect
    /\ ledc = NoLed
    /\ web = NoWeb
    /\ sw = NoStreamWriter
    /\ \E heads \in SeqsUpTo([code : ClientCodes, direction : Directions], MaxFrames) :
          msp = [NoClient EXCEPT !.stream = StreamOf(heads, 1)]

\* receive(code) is entered: deadline = time.monotonic() + self._timeout.
\* The monotonic clock is read from the start of the call.
EnterReceive(m, via, code) ==
    [m EXCEPT !.at = "loop", !.via = via, !.code = code, !.clock = 0,
              !.deadline = 0 + TimeoutTicks, !.polls = 0,
              !.result = NoFrame, !.raised = NoValue, !.ncalls = @ + 1,
              !.stale = Range(m.decoded), !.before = m.pending]

\* receive(code) called on its own.
CallReceive ==
    /\ msp.at = "idle"
    /\ msp.ncalls < MaxClientCalls
    /\ \E code \in ClientCodes : msp' = EnterReceive(msp, "receive", code)
    /\ UNCHANGED <<notClient, decoder>>

\* request(code): stale frames of the code are dropped, the request is sent,
\* receive(code) is entered.
CallRequest ==
    /\ msp.at = "idle"
    /\ msp.ncalls < MaxClientCalls
    /\ \E code \in ClientCodes :
        LET flushed == DictGet(msp.pending, code)
            pending == FlushPending(msp.pending, code)
        IN  /\ decoder' = FlushDecoder(decoder, code)
            /\ msp' = [EnterReceive([msp EXCEPT !.pending = pending], "request", code)
                          EXCEPT !.consumed = @ \cup ({flushed} \ {NoFrame}),
                                 !.before = msp.pending]
    /\ UNCHANGED notClient

\* The read loop after an address mismatch: the receive of the code has
\* returned a frame, the request is sent again (send alone, nothing is
\* flushed) and receive is entered for the same code.
ResendFlashRead ==
    /\ msp.at = "idle"
    /\ msp.ncalls < MaxClientCalls
    /\ msp.via \in {"receive", "resend"}
    /\ msp.result # NoFrame
    /\ msp' = EnterReceive(msp, "resend", msp.code)
    /\ UNCHANGED <<notClient, decoder>>

\* One turn of the loop of receive: a serial read, the chunk through the
\* decoder, the frames into _pending, the pop.  A read that finds nothing
\* takes its 0.1 s; one that returns bytes is counted as taking no time, and
\* an empty read can come at any point of the stream.
ReceiveLoop ==
    /\ msp.at = "loop"
    /\ msp.clock < msp.deadline
    /\ \E n \in 0..Min(MaxRead, Len(msp.stream) - msp.taken) :
        LET dt == IF n = 0 THEN 1 ELSE 0
            chunk == SubSeq(msp.stream, msp.taken + 1, msp.taken + n)
            fed == IF chunk # <<>> THEN Feed(decoder, chunk) ELSE decoder
            frames == fed.frames
            pending == Drain(msp.pending, frames)
            frame == DictGet(pending, msp.code)
        IN  /\ decoder' = [fed EXCEPT !.frames = <<>>]
            /\ msp' = [msp EXCEPT
                    !.taken = @ + n,
                    !.clock = @ + dt,
                    !.polls = Min(@ + 1, 1),
                    !.pending = DictPop(pending, msp.code),
                    !.decoded = @ \o frames,
                    !.consumed = @ \cup ({frame} \ {NoFrame}),
                    !.result = IF IsResponse(frame) THEN frame ELSE NoFrame,
                    !.at = IF IsResponse(frame) THEN "idle" ELSE "loop"]
    /\ UNCHANGED notClient

\* The loop ends at the deadline: raise MSPTimeoutError.
ReceiveTimesOut ==
    /\ msp.at = "loop"
    /\ msp.clock >= msp.deadline
    /\ msp' = [msp EXCEPT !.raised = "MSPTimeoutError", !.at = "idle"]
    /\ UNCHANGED <<notClient, decoder>>

NextClient ==
    \/ CallReceive
    \/ CallRequest
    \/ ResendFlashRead
    \/ ReceiveLoop
    \/ ReceiveTimesOut

SpecClient == InitClient /\ [][NextClient]_vars

\* ------------------------------------------------------------- detect_fc
ApiVersions == {<<1, 45>>, <<1, 46>>, <<4, 0>>, <<4, 5>>}
DetectVariants == {BTFL_VARIANT, <<73, 78, 65, 86>>, <<66, 84>>, <<>>}
DetectUids == Uids \cup {"0123456789ab"}

InitDetect ==
    /\ NoRun
    /\ manifest_io = NoManifestIo
    /\ sessions = NoSessions
    /\ decoder = NewDecoder
    /\ wire = NoWire
    /\ NoRest

\* An exception of the client that is no MSPError leaves detect_fc as it is.
Propagates(d, name, a) ==
    [d EXCEPT !.at = "done", !.raised = "exception",
              !.queried = Append(@, name), !.answers[name] = a]

\* raise a detection error
Raises(d, name, a, error) ==
    [d EXCEPT !.at = "done", !.raised = error,
              !.queried = Append(@, name), !.answers[name] = a]

\* client.get_api_version()
GetApiVersion ==
    /\ det.at = "api_version"
    /\ \E o \in ClientOutcomes, version \in ApiVersions :
        LET a == Answer(o, version) IN
        det' = CASE o = "ok" ->
                        [det EXCEPT !.at = "fc_variant", !.major = version[1],
                                    !.minor = version[2],
                                    !.queried = Append(@, "api_version"),
                                    !.answers.api_version = a]
                 [] o = "msp_error" ->
                        Raises(det, "api_version", a, "FCDetectionError")
                 [] OTHER -> Propagates(det, "api_version", a)
    /\ UNCHANGED notDetect

\* client.get_fc_variant() and the BTFL check
GetFcVariant ==
    /\ det.at = "fc_variant"
    /\ \E o \in ClientOutcomes, variant \in DetectVariants :
        LET a == Answer(o, variant) IN
        det' = CASE o = "ok" /\ VariantIsBtfl(variant) ->
                        [det EXCEPT !.at = "uid", !.variant = variant,
                                    !.queried = Append(@, "fc_variant"),
                                    !.answers.fc_variant = a]
                 [] o = "ok" /\ ~VariantIsBtfl(variant) ->
                        Raises(det, "fc_variant", a, "FCNotBetaflight")
                 [] o = "msp_error" ->
                        Raises(det, "fc_variant", a, "FCDetectionError")
                 [] OTHER -> Propagates(det, "fc_variant", a)
    /\ UNCHANGED notDetect

\* uid = 'unknown'; client.get_uid()
GetUid ==
    /\ det.at = "uid"
    /\ \E o \in ClientOutcomes, uid \in DetectUids :
        LET a == Answer(o, uid) IN
        det' = CASE o = "ok" ->
                        [det EXCEPT !.at = "blackbox_config", !.uid = uid,
                                    !.queried = Append(@, "uid"),
                                    !.answers.uid = a]
                 [] o = "msp_error" ->
                        [det EXCEPT !.at = "blackbox_config", !.uid = "unknown",
                                    !.queried = Append(@, "uid"),
                                    !.answers.uid = a]
                 [] OTHER -> Propagates(det, "uid", a)
    /\ UNCHANGED notDetect

\* blackbox_device = BLACKBOX_DEVICE_NONE; client.get_blackbox_config();
\* the SD card check; the FCInfo returned.
GetBlackboxConfig ==
    /\ det.at = "blackbox_config"
    /\ \E o \in ClientOutcomes, dev \in Devices :
        LET a == Answer(o, dev)
            blackbox_device == IF o = "ok" THEN dev ELSE BLACKBOX_DEVICE_NONE
        IN
        det' = CASE o = "exception" -> Propagates(det, "blackbox_config", a)
                 [] o # "exception" /\ IsSDCard(blackbox_device) ->
                        [Raises(det, "blackbox_config", a, "FCSDCardBlackbox")
                            EXCEPT !.blackbox_device = blackbox_device]
                 [] OTHER ->
                        [det EXCEPT !.at = "done",
                                    !.blackbox_device = blackbox_device,
                                    !.queried = Append(@, "blackbox_config"),
                                    !.answers.blackbox_config = a,
                                    !.info = FCInfo(det.major, det.minor, det.variant,
                                                    det.uid, blackbox_device)]
    /\ UNCHANGED notDetect

NextDetect ==
    \/ GetApiVersion
    \/ GetFcVariant
    \/ GetUid
    \/ GetBlackboxConfig

SpecDetect == InitDetect /\ [][NextDetect]_vars

\* ------------------------------------------------ the LED worker and its caller
InitLed ==
    /\ NoRun
    /\ manifest_io = NoManifestIo
    /\ sessions = NoSessions
    /\ decoder = NewDecoder
    /\ wire = NoWire
    /\ NoRest

\* The worker is inside a delay of a pattern.
InDelay(w) == w.pc \in {"sleep_on", "sleep_off"}

\* start(): the thread is created and begins _run.
Start ==
    /\ ledc.caller = "made"
    /\ ledc' = [ledc EXCEPT !.running = TRUE, !.caller = "idle", !.w.pc = "loop"]
    /\ UNCHANGED notLed

\* set_state(state), under the lock.
SetState ==
    /\ ledc.caller = "idle"
    /\ \E state \in LEDStates :
        IF ledc.state # state
        THEN ledc' = [ledc EXCEPT
                !.state = state, !.event = TRUE, !.waited = NoValue,
                !.asked = state,
                !.interrupted = InDelay(ledc.w) /\ state # ledc.w.state,
                !.unchanged_since_read = FALSE,
                !.plays = 0, !.completed = FALSE]
        ELSE ledc' = [ledc EXCEPT !.waited = NoValue]
    /\ UNCHANGED notLed

\* wait_until_idle() is called: self._idle_event.wait(timeout)
WaitUntilIdle ==
    /\ ledc.caller = "idle"
    /\ ledc' = [ledc EXCEPT !.caller = "waiting", !.waited = NoValue]
    /\ UNCHANGED notLed

\* The idle event is set: the wait returns.
WaitReturns ==
    /\ ledc.caller = "waiting"
    /\ ledc.idle_event
    /\ ledc' = [ledc EXCEPT !.caller = "idle", !.waited = "signal"]
    /\ UNCHANGED notLed

\* The worker does not come to set the idle event: it is gone, it waits for
\* a state change, or the pattern of the current state repeats.  The wait
\* ends with its timeout.
WaitTimesOut ==
    /\ ledc.caller = "waiting"
    /\ ~ledc.idle_event
    /\ \/ ledc.w.pc \in {"none", "exited"}
       \/ ledc.w.pc = "park" /\ ~ledc.event
       \/ PATTERNS[ledc.state].repeat
    /\ ledc' = [ledc EXCEPT !.caller = "idle", !.waited = "timeout"]
    /\ UNCHANGED notLed

\* stop(): self._running = False; self._event.set(); join begins.
Stop ==
    /\ ledc.caller = "idle"
    /\ ledc' = [ledc EXCEPT !.running = FALSE, !.event = TRUE, !.caller = "joining"]
    /\ UNCHANGED notLed

\* stop(): the thread has ended and join returns; self._set_raw(False).
JoinReturns ==
    /\ ledc.caller = "joining"
    /\ ledc.w.pc = "exited"
    /\ ledc' = [ledc EXCEPT !.caller = "stopped", !.raw = FALSE]
    /\ UNCHANGED notLed

\* stop(): join(timeout=3) gives up on a worker that does not end: it waits
\* on the event with the event clear, or it plays a repeating pattern of
\* the current state.  A pattern that does not repeat is over before the 3 s
\* are.  Then self._set_raw(False).
JoinTimesOut ==
    /\ ledc.caller = "joining"
    /\ \/ ledc.w.pc = "park" /\ ~ledc.event
       \/ /\ ledc.w.pc \in {"check", "on", "sleep_on", "off", "sleep_off"}
          /\ PATTERNS[ledc.w.state].repeat
          /\ ledc.w.state = ledc.state
    /\ ledc' = [ledc EXCEPT !.caller = "stopped", !.raw = FALSE]
    /\ UNCHANGED notLed

\* self._set_raw(on) by the worker.
WorkerSetRaw(l, on) ==
    [l EXCEPT !.raw = on,
              !.wrote_after_stop = @ \/ l.caller = "stopped"]

\* _run: while self._running
WorkerLoop ==
    /\ ledc.w.pc = "loop"
    /\ ledc' = [ledc EXCEPT !.w.pc = IF ledc.running THEN "read" ELSE "exited"]
    /\ UNCHANGED notLed

\* _run: with self._lock: state = self._state
WorkerReadsState ==
    /\ ledc.w.pc = "read"
    /\ ledc' = [ledc EXCEPT !.w.pc = "clear_event", !.w.state = ledc.state,
                             !.w.i = 0, !.w.left = 0,
                             !.unchanged_since_read = TRUE]
    /\ UNCHANGED notLed

\* _run: self._event.clear()
WorkerClearsEvent ==
    /\ ledc.w.pc = "clear_event"
    /\ ledc' = [ledc EXCEPT !.w.pc = "clear_idle", !.event = FALSE]
    /\ UNCHANGED notLed

\* _run: self._idle_event.clear(); _execute_pattern(state) is entered.
WorkerClearsIdle ==
    /\ ledc.w.pc = "clear_idle"
    /\ ledc' = [ledc EXCEPT
            !.idle_event = FALSE,
            !.w.pc = IF PATTERNS[ledc.w.state].steps = <<>> THEN "final_off"
                     ELSE "check",
            !.w.i = IF PATTERNS[ledc.w.state].steps = <<>> THEN 0 ELSE 1]
    /\ UNCHANGED notLed

\* _execute_pattern: if self._state_changed(state): return
WorkerChecks ==
    /\ ledc.w.pc = "check"
    /\ ledc' = IF StateChanged(ledc.state, ledc.w.state)
               THEN [ledc EXCEPT !.w.pc = "loop", !.interrupted = FALSE]
               ELSE [ledc EXCEPT !.w.pc = "on"]
    /\ UNCHANGED notLed

\* _execute_pattern: self._set_raw(True); the on delay begins.
WorkerOn ==
    /\ ledc.w.pc = "on"
    /\ ledc' = [WorkerSetRaw(ledc, TRUE) EXCEPT
                  !.w = Sleep(@, "sleep_on", PATTERNS[@.state].steps[@.i][1]),
                  !.plays = IF ledc.w.i = 1 /\ ledc.w.state = ledc.state
                            THEN Min(@ + 1, 2) ELSE @]
    /\ UNCHANGED notLed

\* _interruptible_sleep: one wait of at most SLICE_MS on the event, then
\* the look at the state: changed, the pattern is left; the delay over, the
\* next line of the pattern.
WorkerSlice ==
    /\ InDelay(ledc.w)
    /\ LET left == ledc.w.left - Min(ledc.w.left, SLICE_MS) IN
       ledc' = IF StateChanged(ledc.state, ledc.w.state)
               THEN [ledc EXCEPT !.w.pc = "loop", !.w.left = 0,
                                 !.preempted = @ \/ ledc.interrupted,
                                 !.interrupted = FALSE]
               ELSE IF left > 0
               THEN [ledc EXCEPT !.w.left = left,
                                 !.overslept = @ \/ ledc.interrupted]
               ELSE [ledc EXCEPT
                        !.w = IF @.pc = "sleep_on" THEN AfterOn([@ EXCEPT !.left = 0])
                              ELSE AfterOff([@ EXCEPT !.left = 0]),
                        !.overslept = @ \/ ledc.interrupted]
    /\ UNCHANGED notLed

\* _execute_pattern: self._set_raw(False); the off delay begins if off_ms > 0.
WorkerOff ==
    /\ ledc.w.pc = "off"
    /\ ledc' = [WorkerSetRaw(ledc, FALSE) EXCEPT
                  !.w = Sleep(@, "sleep_off", PATTERNS[@.state].steps[@.i][2])]
    /\ UNCHANGED notLed

\* _execute_pattern, no steps or not repeat: self._set_raw(False)
WorkerFinalOff ==
    /\ ledc.w.pc = "final_off"
    /\ ledc' = [WorkerSetRaw(ledc, FALSE) EXCEPT !.w.pc = "idle_set"]
    /\ UNCHANGED notLed

\* _execute_pattern: self._idle_event.set()
WorkerSetsIdle ==
    /\ ledc.w.pc = "idle_set"
    /\ ledc' = [ledc EXCEPT !.idle_event = TRUE, !.w.pc = "park",
                             !.completed = @ \/ ledc.w.state = ledc.state]
    /\ UNCHANGED notLed

\* _execute_pattern: self._event.wait() returns once the event is set.
WorkerWakes ==
    /\ ledc.w.pc = "park"
    /\ ledc.event
    /\ ledc' = [ledc EXCEPT !.w.pc = "loop"]
    /\ UNCHANGED notLed

NextLed ==
    \/ Start
    \/ SetState
    \/ WaitUntilIdle
    \/ WaitReturns
    \/ WaitTimesOut
    \/ Stop
    \/ JoinReturns
    \/ JoinTimesOut
    \/ WorkerLoop
    \/ WorkerReadsState
    \/ WorkerClearsEvent
    \/ WorkerClearsIdle
    \/ WorkerChecks
    \/ WorkerOn
    \/ WorkerSlice
    \/ WorkerOff
    \/ WorkerFinalOff
    \/ WorkerSetsIdle
    \/ WorkerWakes

SpecLed == InitLed /\ [][NextLed]_vars

\* ------------------------------------------------- the session directories
InitWeb ==
    /\ NoRun
    /\ manifest_io = NoManifestIo
    /\ sessions = NoSessions
    /\ decoder = NewDecoder
    /\ wire = NoWire
    /\ msp = NoClient
    /\ det = NoDetect
    /\ ledc = NoLed
    /\ sw = NoStreamWriter
    /\ \E link \in BOOLEAN : web = [NoWeb EXCEPT !.link = link]

\* make_session_dir: session_dir.mkdir(parents=True, exist_ok=True)
CreateSession ==
    /\ web' = [web EXCEPT
            !.dirs = @ \cup {<<>>, <<FcDir>>, <<FcDir, SessionName>>},
            !.session_id = <<>>, !.code = 0, !.removed = {}]
    /\ UNCHANGED notWeb

\* DELETE /sessions/<session_id>: do_DELETE and _handle_delete_session.
DeleteSession ==
    /\ \E session_id \in SeqsUpTo(IdChars, MaxIdLen) :
        LET r == ResolveSessionPath(session_id, web.link) IN
        web' = IF r.code # 0
               THEN [web EXCEPT !.session_id = session_id, !.code = r.code,
                                !.removed = {}]
               ELSE IF r.path \notin web.dirs
               THEN [web EXCEPT !.session_id = session_id, !.code = 404,
                                !.removed = {}]
               ELSE [web EXCEPT !.session_id = session_id, !.code = 200,
                                !.dirs = RmTree(@, r.path),
                                !.removed = web.dirs \ RmTree(web.dirs, r.path)]
    /\ UNCHANGED notWeb

NextWeb ==
    \/ CreateSession
    \/ DeleteSession

SpecWeb == InitWeb /\ [][NextWeb]_vars

\* ------------------------------------------------- the sessions cache
\* The sessions of the storage, by number; list_sessions gives the set of
\* those that are there.
InitCache ==
    /\ NoRun
    /\ manifest_io = NoManifestIo
    /\ sessions = NoSessions
    /\ decoder = NewDecoder
    /\ wire = NoWire
    /\ msp = NoClient
    /\ det = NoDetect
    /\ ledc = NoLed
    /\ sw = NoStreamWriter
    /\ \E n \in 1..MaxStored, up \in {0, SESSIONS_TTL + 1} :
          web = [NoWeb EXCEPT !.srv.stored = 1..n, !.srv.now = up]

\* Mutant: a cache that never expires.
CacheExpiredNever(now, ts) == FALSE

\* _get_sessions: _time.monotonic() - ts > _SESSIONS_TTL
CacheExpired(now, ts) == now - ts > SESSIONS_TTL

\* list_sessions(storage)
ListSessions(stored) == stored

\* Time passes: a second, or more than the life of the cache.
Tick ==
    /\ \E d \in {1, SESSIONS_TTL + 1} :
        /\ web.srv.now + d <= MaxUptime
        /\ web' = [web EXCEPT !.srv.now = @ + d]
    /\ UNCHANGED notWeb

\* GET /sessions or GET /: _get_sessions reads the cache and the clock.
GetReadsCache ==
    /\ \E t \in 1..MaxGetThreads :
        /\ web.srv.get[t].at = "idle"
        /\ web' = [web EXCEPT !.srv.get[t] =
                [at |-> IF CacheExpired(web.srv.now, web.srv.sessions_cache.ts)
                        THEN "list" ELSE "answer",
                 ts |-> web.srv.sessions_cache.ts,
                 data |-> web.srv.sessions_cache.data,
                 id |-> 0,
                 deleted |-> web.srv.deleted]]
    /\ UNCHANGED notWeb

\* _get_sessions: data = list_sessions(storage)
GetListsSessions ==
    /\ \E t \in 1..MaxGetThreads :
        /\ web.srv.get[t].at = "list"
        /\ web' = [web EXCEPT !.srv.get[t].at = "store",
                              !.srv.get[t].data = ListSessions(web.srv.stored)]
    /\ UNCHANGED notWeb

\* _get_sessions: _sessions_cache = (_time.monotonic(), data)
GetStoresCache ==
    /\ \E t \in 1..MaxGetThreads :
        /\ web.srv.get[t].at = "store"
        /\ web' = [web EXCEPT
                !.srv.get[t].at = "answer",
                !.srv.sessions_cache = [ts |-> web.srv.now,
                                        data |-> web.srv.get[t].data]]
    /\ UNCHANGED notWeb

\* The response of the GET is sent.
GetAnswers ==
    /\ \E t \in 1..MaxGetThreads :
        /\ web.srv.get[t].at = "answer"
        /\ web' = [web EXCEPT !.srv.get[t] = NoRequest]
    /\ UNCHANGED notWeb

\* _handle_delete_session: the session is there, shutil.rmtree(session_path).
\* A session that is not there is answered 404 at once.
DeleteRemoves ==
    /\ web.srv.del.at = "idle"
    /\ \E id \in 1..MaxStored :
        web' = IF id \in web.srv.stored
               THEN [web EXCEPT !.srv.stored = @ \ {id},
                                !.srv.del = [NoRequest EXCEPT !.at = "invalidate",
                                                              !.id = id]]
               ELSE web
    /\ UNCHANGED notWeb

\* _handle_delete_session: _sessions_cache = (0.0, [])
DeleteInvalidates ==
    /\ web.srv.del.at = "invalidate"
    /\ web' = [web EXCEPT !.srv.sessions_cache = NoSessionsCache,
                          !.srv.del.at = "answer"]
    /\ UNCHANGED notWeb

\* _handle_delete_session: {'deleted': True} is sent.
DeleteAnswers ==
    /\ web.srv.del.at = "answer"
    /\ web' = [web EXCEPT !.srv.deleted = @ \cup {web.srv.del.id},
                          !.srv.del = NoRequest]
    /\ UNCHANGED notWeb

NextCache ==
    \/ Tick
    \/ GetReadsCache
    \/ GetListsSessions
    \/ GetStoresCache
    \/ GetAnswers
    \/ DeleteRemoves
    \/ DeleteInvalidates
    \/ DeleteAnswers

SpecCache == InitCache /\ [][NextCache]_vars

\* ------------------------------------------------- a StreamWriter on its own
InitWriter ==
    /\ NoRun
    /\ manifest_io = NoManifestIo
    /\ sessions = NoSessions
    /\ decoder = NewDecoder
    /\ wire = NoWire
    /\ NoRest

\* What the disk takes of the bytes written out, within the faults allowed.
Stored(l, data) ==
    {stored \in DiskStores(data) : stored # data => l.faults < MaxDiskFaults}

\* The writer after data went out to the file as stored.
WrittenOut(l, data, stored) ==
    [l EXCEPT !.d.bbl = @ \o stored, !.buffer = <<>>,
              !.faults = IF stored = data THEN @ ELSE @ + 1]

\* open(): the file is created empty.
OpenWriter ==
    /\ sw.w.file = "none"
    /\ sw' = [sw EXCEPT !.w = WriterOpen(@), !.d = [bbl_exists |-> TRUE, bbl |-> <<>>],
                        !.raised = NoValue]
    /\ UNCHANGED notWriter

\* write(data).  Without an open file self._file is None, and a write of
\* data that is not empty raises before anything is hashed or counted.
WriteData ==
    /\ \E data \in SeqsUpTo(SwBytes, MaxWriteLen) :
        /\ Len(sw.passed) + Len(data) <= MaxWritten
        /\ sw' = IF data # <<>> /\ sw.w.file # "open"
                 THEN [sw EXCEPT !.raised = "AttributeError"]
                 ELSE [sw EXCEPT !.w = WriterWrite(@, data),
                                 !.buffer = @ \o data,
                                 !.passed = @ \o data,
                                 !.raised = NoValue]
    /\ UNCHANGED notWriter

\* The file object writes its buffer out.
BufferGoesOut ==
    /\ sw.w.file = "open"
    /\ sw.buffer # <<>>
    /\ \E stored \in Stored(sw, sw.buffer) : sw' = WrittenOut(sw, sw.buffer, stored)
    /\ UNCHANGED notWriter

\* close(): flush, fsync, close; nothing without an open file.
CloseFile ==
    /\ \E stored \in Stored(sw, sw.buffer) :
        sw' = IF sw.w.file = "open"
              THEN [WrittenOut(sw, sw.buffer, stored) EXCEPT
                        !.w = WriterClose(@), !.raised = NoValue]
              ELSE [sw EXCEPT !.raised = NoValue]
    /\ UNCHANGED notWriter

\* The closed file is changed on the disk behind the writer: its first byte
\* is overwritten.
FileIsCorrupted ==
    /\ sw.w.file = "closed"
    /\ sw.d.bbl # <<>>
    /\ sw.faults < MaxDiskFaults
    /\ sw' = [sw EXCEPT !.d.bbl[1] = (@ + 1) % FlashLen, !.faults = @ + 1]
    /\ UNCHANGED notWriter

\* verify_against_file(): the file is read again and its hash compared.
VerifyAgainstFile ==
    /\ sw.d.bbl_exists
    /\ sw' = [sw EXCEPT
            !.verified = [called |-> TRUE, closed |-> sw.w.file = "closed",
                          match |-> VerifyMatch(sw.w, sw.d),
                          file_sha256 |-> FileSha256(sw.d),
                          content |-> sw.d.bbl, passed |-> sw.passed],
            !.raised = NoValue]
    /\ UNCHANGED notWriter

NextWriter ==
    \/ OpenWriter
    \/ WriteData
    \/ BufferGoesOut
    \/ CloseFile
    \/ FileIsCorrupted
    \/ VerifyAgainstFile

SpecWriter == InitWriter /\ [][NextWriter]_vars

\* ------------------------------------------------------------------ claims
\* What the flight controller reported in the first flash summary.
Supported == hist.summary_seen /\ FlashUsable(hist.summary)

\* C1: erase_flash is invoked only after bytes_written == used_size held and
\* verify_against_file returned match == True in the same run; while the
\* size or the re-read hash differs no erase is ever sent, and a run that
\* returns in that condition returns ERROR.
C1_EraseOnlyAfterVerification ==
    /\ calls.erase > 0 =>
          /\ hist.verified_at_erase
          /\ loc.match = "yes"
          /\ writer.bytes_written = loc.used_size
          /\ Sha256(disk.bbl) = writer.hasher
    /\ (writer.bytes_written # loc.used_size \/ Sha256(disk.bbl) # writer.hasher) =>
          /\ calls.erase = 0
          /\ pc = "done" => result = "ERROR"

C1_Witness == calls.erase > 0 /\ hist.verified_at_erase /\ pc = "poll"

\* C2: erase_flash is invoked only if dry_run is false and erase_after_sync
\* is true.  A dry run whose read and verification succeed returns DRY_RUN
\* and leaves a manifest with erase_attempted == false, even with
\* erase_after_sync true; without dry run and with erase_after_sync false
\* the run returns SUCCESS, without an erase either.
C2_EraseOnlyWhenConfigured ==
    /\ calls.erase > 0 => ~cfg.dry_run /\ cfg.erase_after_sync
    /\ (pc = "done" /\ loc.match = "yes" /\ cfg.dry_run) =>
          /\ result = "DRY_RUN"
          /\ calls.erase = 0
          /\ disk.manifest.written
          /\ ~disk.manifest.erase_attempted
    /\ (pc = "done" /\ loc.match = "yes" /\ ~cfg.dry_run /\ ~cfg.erase_after_sync) =>
          /\ result = "SUCCESS"
          /\ calls.erase = 0

C2_Witness ==
    pc = "done" /\ cfg.dry_run /\ cfg.erase_after_sync /\ result = "DRY_RUN"

\* C3: once manifest.json is written, its file.sha256 is the SHA-256 of the
\* raw_flash.bbl beside it and its file.bytes is that file's length; and a
\* manifest with erase_completed == true means the file had passed the size
\* and hash verification before the erase command was sent.
C3_ManifestDescribesFile ==
    disk.manifest.written =>
        /\ disk.bbl_exists
        /\ disk.manifest.sha256 = Sha256(disk.bbl)
        /\ disk.manifest.bytes = Len(disk.bbl)
        /\ disk.manifest.erase_completed =>
              /\ hist.verified_at_erase
              /\ calls.erase > 0

C3_Witness == disk.manifest.written /\ disk.manifest.erase_completed

\* C4: the read gives up for too many errors exactly when 5 receive
\* attempts in a row have failed (MSP errors and address mismatches in any
\* mix) with no received chunk between them; it then aborts the writer and
\* returns ERROR with LED=ERROR_GENERAL.  A received chunk resets the
\* count, so a read that is aborted without any other exception has given
\* up this way, and four failures before a chunk do not stop it.
C4_GivesUpAfterFiveInARow ==
    /\ hist.fail_streak <= 5
    /\ hist.gave_up <=> hist.fail_streak = 5
    /\ hist.gave_up =>
          /\ pc = "done" /\ result = "ERROR" /\ led = "ERROR_GENERAL"
          /\ writer.file = "closed" /\ ~disk.bbl_exists
    /\ (pc = "done" /\ writer.file # "none" /\ ~disk.bbl_exists /\ ~hist.read_failed) =>
          hist.gave_up

C4_Witness == hist.recovered /\ pc = "verify" /\ ~hist.read_failed

C6_HonestFlashIsCopied ==
    (/\ pc = "done"
     /\ hist.nominal
     /\ loc.fc_info.detected
     /\ Supported /\ hist.summary.used_size > 0
     /\ ~cfg.dry_run
     /\ loc.erase_ok # "no") =>
        /\ result = "SUCCESS"
        /\ disk.bbl_exists
        /\ disk.bbl = SubSeq(flash, 1, hist.summary.used_size)
        /\ disk.manifest.written
        /\ disk.manifest.sha256 = Sha256(SubSeq(flash, 1, hist.summary.used_size))
        /\ disk.manifest.bytes = hist.summary.used_size

C6_Witness ==
    /\ pc = "done" /\ result = "SUCCESS" /\ hist.nominal
    /\ hist.summary.used_size = FlashLen
    /\ cfg.flash_chunk_size = 2
    /\ loc.erase_ok = "yes"
    /\ disk.bbl = flash

\* C7: a summary that reports supported, ready and used_size == 0 makes run
\* return ALREADY_EMPTY with the LED last set to ALREADY_EMPTY and status
\* idle; no read request and no erase command was sent and no session
\* directory or file was created.
C7_AlreadyEmpty ==
    (pc = "done" /\ Supported /\ hist.summary.used_size = 0) =>
        /\ result = "ALREADY_EMPTY"
        /\ led = "ALREADY_EMPTY"
        /\ status.state = "idle"
        /\ calls.read_request = 0
        /\ calls.erase = 0
        /\ writer.file = "none"
        /\ ~disk.storage_root /\ ~disk.session_dir /\ ~disk.bbl_exists
        /\ ~disk.manifest.written

C7_Witness == pc = "done" /\ result = "ALREADY_EMPTY" /\ calls.summary = 1

\* The flight controller failed the detection: the version or variant
\* request ended in an MSP error, the variant is not BTFL, or the blackbox
\* device is the SD card.
DetectionFailed ==
    \/ hist.fc.handshake_failed
    \/ hist.fc.variant \notin {"none", "BTFL"}
    \/ hist.fc.device = 2

\* C8: when detection fails, run returns ERROR with LED=ERROR_GENERAL and
\* status error right after the detection: it has asked for no flash
\* summary, sent no read and no erase, and created nothing under the
\* storage root.
C8_DetectionFailureStopsTheRun ==
    DetectionFailed =>
        /\ pc = "done" /\ result = "ERROR"
        /\ led = "ERROR_GENERAL"
        /\ status.state = "error"
        /\ calls.summary = 0 /\ calls.read_request = 0 /\ calls.erase = 0
        /\ writer.file = "none"
        /\ ~disk.storage_root /\ ~disk.session_dir /\ ~disk.bbl_exists
        /\ ~disk.manifest.written

C8_Witness == hist.fc.device = 2 /\ pc = "done" /\ calls.blackbox_config = 1

\* C9: every run that returns ERROR, on whatever path, has ERROR_GENERAL as
\* its last LED state and leaves the shared status at state 'error'.
C9_ErrorIsSignalled ==
    (pc = "done" /\ result = "ERROR") =>
        /\ led = "ERROR_GENERAL"
        /\ status.state = "error"

C9_Witness ==
    pc = "done" /\ result = "ERROR" /\ loc.erase_ok = "no" /\ led = "ERROR_GENERAL"

C11_ManifestLifecycle ==
    /\ hist.manifest_writes <= 1
    /\ hist.manifest_updates <= 1
    /\ disk.manifest.written <=> hist.manifest_writes = 1
    /\ hist.manifest_writes = 1 =>
          /\ loc.match = "yes"
          /\ writer.bytes_written = loc.used_size
          /\ pc \in {"erase", "poll", "done"}
    /\ (hist.manifest_writes = 1 /\ hist.manifest_updates = 0) =>
          disk.manifest = [written |-> TRUE, sha256 |-> loc.file_sha256,
                           bytes |-> loc.used_size,
                           erase_attempted |-> FALSE, erase_completed |-> FALSE]
    /\ hist.manifest_updates = 1 =>
          /\ hist.manifest_writes = 1
          /\ calls.erase > 0
          /\ loc.erase_ok # "none"
          /\ pc = "done"
          /\ disk.manifest = [written |-> TRUE, sha256 |-> loc.file_sha256,
                              bytes |-> loc.used_size,
                              erase_attempted |-> TRUE,
                              erase_completed |-> loc.erase_ok = "yes"]

C11_Witness ==
    hist.manifest_writes = 1 /\ hist.manifest_updates = 1 /\ loc.polls > 0

\* C12: a process that dies inside write_manifest or update_manifest_erase
\* leaves manifest.json as it was before the call (absent, or the whole old
\* text) or with the whole new text, never empty and never cut short.
C12_ManifestMutationAtomic ==
    manifest_io.at = "crashed" =>
        \/ manifest_io.file = manifest_io.before
        \/ manifest_io.file = File(manifest_io.text)

\* C13: two calls of make_session_dir for the same storage root and the
\* same uid within one wall-clock second return different directories.
C13_SameSecondSessionsDiffer ==
    \A i, j \in 1..Len(sessions.made) :
        (/\ i < j
         /\ sessions.made[i].uid = sessions.made[j].uid
         /\ sessions.made[i].now \div TicksPerSecond
                = sessions.made[j].now \div TicksPerSecond) =>
            /\ sessions.made[i].session_dir # sessions.made[j].session_dir
            /\ ~sessions.made[j].existed

\* C14: a summary with used_size > total_size is rejected: the run ends in
\* ERROR and used_size is never used as the number of bytes to read.
C14_UsedSizeAboveTotalRejected ==
    (hist.summary_seen /\ hist.summary.used_size > hist.summary.total_size) =>
        /\ pc = "done"
        /\ result = "ERROR"
        /\ calls.read_request = 0

\* C15: _wait_for_erase sends the erase command once and returns True only
\* if a poll made after it reported used_size == 0 and ready; a poll that
\* raises an MSP error is skipped and the polling goes on; it returns False
\* when the time is up without such a poll.  After an erase the run
\* returns SUCCESS only when it returned True.
C15_EraseConfirmedByPoll ==
    /\ calls.erase <= 1
    /\ loc.erase_ok # "none" => calls.erase = 1
    /\ loc.erase_ok = "yes" <=> hist.poll_confirmed
    /\ loc.erase_ok = "no" => ~hist.poll_confirmed /\ loc.polls <= MaxPolls
    /\ (hist.poll_error_skipped /\ loc.erase_ok = "none" /\ ~hist.caught_in_run) =>
          pc = "poll"
    /\ (pc = "done" /\ calls.erase > 0 /\ result = "SUCCESS") =>
          loc.erase_ok = "yes"
    /\ (pc = "done" /\ loc.erase_ok = "yes") => result = "SUCCESS"

C15_Witness ==
    /\ pc = "done" /\ result = "SUCCESS"
    /\ hist.poll_error_skipped /\ hist.poll_confirmed
    /\ loc.erase_ok = "yes" /\ loc.polls > 0

C17_EncodedFrameDecodes ==
    (wire.is = "frame" /\ wire.fed = Len(wire.input)) =>
        /\ decoder.frames = <<MSPFrame(wire.version, FromFc, wire.code, wire.payload)>>
        /\ decoder.state = IDLE

C17_Witness ==
    /\ wire.is = "frame" /\ wire.fed = Len(wire.input)
    /\ wire.version = 2 /\ wire.code = 4660 /\ Len(wire.payload) = MaxPayload
    /\ Len(decoder.frames) = 1 /\ decoder.frames[1].code = 4660

\* C18: whatever way the input is cut into calls of feed, the decoder ends
\* up as after one call with all the bytes fed so far: the frames emitted
\* depend on the byte stream alone.
C18_FeedPartitionIndependent ==
    decoder = Feed(NewDecoder, SubSeq(wire.input, 1, wire.fed))

C18_Witness ==
    /\ wire.fed = Len(wire.input) /\ Len(wire.input) > MaxFeed
    /\ wire.is = "frame" /\ wire.payload # <<>>
    /\ Len(decoder.frames) = 1

\* C19: a valid frame with one bit of its checksum byte flipped gives no
\* frame, and the decoder is in IDLE after it.
C19_FlippedChecksumDropped ==
    (wire.is = "flipped" /\ wire.fed = Len(wire.input)) =>
        /\ decoder.frames = <<>>
        /\ decoder.state = IDLE

C19_Witness ==
    /\ wire.is = "flipped" /\ wire.fed = Len(wire.input)
    /\ wire.bit = 7 /\ wire.version = 2 /\ wire.payload # <<>>
    /\ decoder.frames = <<>>

\* C20: noise that holds no $M< and no $X< (it may hold or end with $, $M
\* or $X), followed by one valid frame, gives exactly that frame.
C20_GarbageThenFrame ==
    (wire.is = "garbage" /\ wire.fed = Len(wire.input)) =>
        decoder.frames = <<MSPFrame(wire.version, FromFc, wire.code, wire.payload)>>

\* The last frame of a code among those decoded, NoFrame if there is none.
RECURSIVE LastOfCode(_, _)
LastOfCode(frames, code) ==
    IF frames = <<>> THEN NoFrame
    ELSE IF frames[Len(frames)].code = code THEN frames[Len(frames)]
    ELSE LastOfCode(SubSeq(frames, 1, Len(frames) - 1), code)

C22_RequestFlushesStale ==
    /\ (msp.via = "request" /\ msp.result # NoFrame) => msp.result \notin msp.stale
    /\ (msp.via = "request" /\ msp.at = "loop" /\ msp.polls = 0) =>
          /\ msp.code \notin DOMAIN msp.pending
          /\ \A i \in 1..Len(decoder.frames) : decoder.frames[i].code # msp.code
          /\ \A code \in ClientCodes \ {msp.code} :
                DictGet(msp.pending, code) = DictGet(msp.before, code)

\* A request found a stale frame of its code in the pending dict and
\* returned a frame that came after the send.
C22_Witness ==
    /\ msp.via = "request" /\ msp.result # NoFrame
    /\ msp.code \in DOMAIN msp.before

\* The client calls of detect_fc in the order of the code.
DetectOrder == <<"api_version", "fc_variant", "uid", "blackbox_config">>

\* C23: detect_fc asks api_version, fc_variant, uid, blackbox_config in that
\* order; an MSP failure of api_version or fc_variant raises
\* FCDetectionError; a variant whose first four bytes are not BTFL raises
\* FCNotBetaflight before uid or blackbox_config is asked; device 2 raises
\* FCSDCardBlackbox; an MSP failure of uid gives uid 'unknown' and one of
\* blackbox_config gives device 0 without failing; otherwise the FCInfo
\* carries the values read.
C23_DetectFcClassifies ==
    LET a == det.answers
        asked == Len(det.queried)
    IN
    /\ det.queried = SubSeq(DetectOrder, 1, asked)
    /\ det.at = "done" =>
        /\ (det.raised = NoValue) # (det.info = NoInfo)
        /\ CASE a.api_version.o = "msp_error" ->
                    det.raised = "FCDetectionError" /\ asked = 1
              [] a.api_version.o = "ok" /\ a.fc_variant.o = "msp_error" ->
                    det.raised = "FCDetectionError" /\ asked = 2
              [] a.api_version.o = "ok" /\ a.fc_variant.o = "ok"
                 /\ SubSeq(a.fc_variant.value, 1, Min(4, Len(a.fc_variant.value)))
                        # BTFL_VARIANT ->
                    det.raised = "FCNotBetaflight" /\ asked = 2
              [] asked = 4 /\ a.uid.o # "exception"
                 /\ a.blackbox_config.o = "ok" /\ a.blackbox_config.value = 2 ->
                    det.raised = "FCSDCardBlackbox"
              [] asked = 4 /\ a.uid.o # "exception"
                 /\ a.blackbox_config.o # "exception" ->
                    /\ det.raised = NoValue
                    /\ det.info =
                         FCInfo(a.api_version.value[1], a.api_version.value[2],
                                a.fc_variant.value,
                                IF a.uid.o = "ok" THEN a.uid.value ELSE "unknown",
                                IF a.blackbox_config.o = "ok"
                                THEN a.blackbox_config.value ELSE 0)
              [] OTHER ->
                    /\ det.raised = "exception"
                    /\ a[DetectOrder[asked]].o = "exception"

\* Detection went through with the uid and the blackbox config both
\* failing on the MSP level.
C23_Witness ==
    /\ det.at = "done" /\ det.raised = NoValue
    /\ det.answers.uid.o = "msp_error"
    /\ det.answers.blackbox_config.o = "msp_error"
    /\ det.info.uid = "unknown" /\ det.info.blackbox_device = 0

C25_PlayedOnceThenParked ==
    /\ ledc.state = ledc.asked
    /\ ~PATTERNS[ledc.state].repeat => ledc.plays <= 1
    /\ (ledc.w.pc = "park" /\ ledc.caller # "stopped") => ~ledc.raw
    /\ (ledc.w.pc = "park" /\ ledc.unchanged_since_read /\ ledc.running)
            => ~ledc.event /\ ledc.idle_event

\* C26: when stop() has set running to false the worker thread ends,
\* whatever it is doing, so that the join of stop() finds it ended, and it
\* writes the LED no more once stop() has turned the LED off.
C26_StopEndsTheWorker ==
    /\ ledc.caller = "stopped" => ledc.w.pc = "exited"
    /\ ~ledc.wrote_after_stop

\* C30: wait_until_idle, called after set_state(s) for a state s whose
\* pattern does not repeat, returns on the idle signal only when the pattern
\* of s has completed, never on a signal left from the state before s.
C30_WaitUntilIdleWaitsForThePattern ==
    (ledc.waited = "signal" /\ ~PATTERNS[ledc.state].repeat) => ledc.completed

\* C27: a session_id is accepted only if it splits on '/' into exactly two
\* components, neither of them empty nor containing '..', and resolves
\* inside storage_root; every other session_id is answered with 400 and
\* nothing is removed.  So what a DELETE removes is a directory exactly two
\* levels below storage_root with what is in it, never storage_root or a
\* whole directory of a flight controller.
C27_OnlySessionsAreRemoved ==
    web.code # 0 =>
        LET parts == Split(web.session_id)
            accepted ==
                /\ Len(parts) = 2
                /\ parts[1] # <<>> /\ parts[2] # <<>>
                /\ ~HasDotDot(parts[1]) /\ ~HasDotDot(parts[2])
                /\ ~(web.link /\ parts[1] = LinkName)
        IN  /\ ~accepted => web.code = 400 /\ web.removed = {}
            /\ \A p \in web.removed : Len(p) >= 2

\* C28: every status record the orchestrator publishes has its progress in
\* 0..100, whatever the flight controller answers, answers with more data
\* than was asked for included; while the flash is read the progress is
\* address * 100 / used_size, rounded down, for the current address.
C28_ProgressIsAPercentage ==
    /\ status.progress \in 0..100
    /\ status.state = "syncing"
            => status.progress = Progress(loc.address, loc.used_size)

\* C29: after any sequence of write calls on a StreamWriter, those of no
\* bytes doing nothing, the streaming hash is the hash of all the bytes
\* passed to write, one after the other, and bytes_written is their number;
\* verify_against_file called after close returns match = True exactly when
\* the file on the disk holds those bytes.
C29_HashOfAllThatWasWritten ==
    /\ sw.w.hasher = Sha256(sw.passed)
    /\ sw.w.bytes_written = Len(sw.passed)
    /\ (sw.verified.called /\ sw.verified.closed)
            => (sw.verified.match <=> sw.verified.content = sw.verified.passed)

\* Three bytes went in by more than one write, the file was closed and the
\* file read again was found to match.
C29_Witness ==
    /\ sw.verified.called /\ sw.verified.closed /\ sw.verified.match
    /\ Len(sw.verified.passed) = 3
    /\ sw.w.bytes_written = 3

\* C31: when a chunk that is not empty is received at the expected address
\* and next_address = address + len(data) is below used_size, the request
\* for next_address, of size min(chunk_size, used_size - next_address), is
\* sent before the chunk is given to the writer; when next_address is
\* used_size or more, no request is sent; and the write sends none.
C31_NextRequestBeforeWrite ==
    [][/\ (pc = "receive" /\ pc' = "write") =>
            /\ writer' = writer /\ disk' = disk
            /\ loc'.data # <<>>
            /\ loc'.next_address = loc.address + Len(loc'.data)
            /\ client'.inflight =
                IF loc'.next_address < loc.used_size
                THEN Append(Tail(client.inflight),
                            [addr |-> loc'.next_address,
                             size |-> Min(cfg.flash_chunk_size,
                                          loc.used_size - loc'.next_address)])
                ELSE Tail(client.inflight)
       /\ pc = "write" =>
            /\ client' = client
            /\ writer'.bytes_written = writer.bytes_written + Len(loc.data)
      ]_vars

\* A chunk was received with more to read: the request for the next window
\* is on the wire and the chunk is not yet written.
C31_Witness ==
    /\ pc = "write"
    /\ loc.next_address < loc.used_size
    /\ client.inflight # <<>>
    /\ client.inflight[Len(client.inflight)].addr = loc.next_address
    /\ writer.bytes_written = loc.address

\* C32: the read pipeline is one deep: at every point of the read loop, a
\* retry after a timeout or an address mismatch included, at most one read
\* request has been sent whose response the orchestrator has not consumed.
C32_PipelineOneDeep ==
    pc \in {"first_request", "receive", "write"} => Len(client.inflight) <= 1

C34_FileFollowsTheFlash ==
    pc \in {"first_request", "receive", "write"} =>
        /\ loc.address = writer.bytes_written
        /\ writer.hasher = Sha256(Slice(flash, 0, loc.address))
        /\ pc = "write" =>
            /\ loc.data = Slice(flash, loc.address, Len(loc.data))
            /\ loc.next_address = loc.address + Len(loc.data)

\* After a failed attempt, with a late answer still on its way, a chunk
\* beyond the first is about to be written.
C34_Witness ==
    /\ pc = "write"
    /\ loc.address > 0
    /\ hist.fail_streak = 0 /\ ~hist.nominal
    /\ Len(client.inflight) = 2

\* ------------------------------------------------------------ termination

\* The steps of _run in program order; a step never goes back to an earlier
\* one, except from the write of a chunk to the receive of the next.
StageOrder ==
    <<"done", "poll", "erase", "manifest", "verify", "close", "receive",
      "first_request", "prepare", "storage", "summary", "blackbox_config",
      "uid", "fc_variant", "api_version", "open">>

StageOf(p) == CHOOSE i \in 1..Len(StageOrder) : StageOrder[i] = IF p = "write" THEN "receive" ELSE p

\* What is left of the current step: the bytes still to read and the failures
\* still allowed in the read loop, the polls still allowed before the deadline
\* of _wait_for_erase.
WithinStage ==
    CASE pc = "receive" ->
            Max(loc.used_size - loc.address, 0) * (MAX_CONSECUTIVE_ERRORS + 3)
            + (MAX_CONSECUTIVE_ERRORS + 2 - loc.consecutive_errors)
      [] pc = "write" ->
            Max(loc.used_size - loc.address, 0) * (MAX_CONSECUTIVE_ERRORS + 3)
      [] pc = "poll" -> MaxPolls - loc.polls
      [] OTHER -> 0

StageSpan == (FlashLen + 2) * (MAX_CONSECUTIVE_ERRORS + 3) + MaxPolls + 1

\* A variant of run: a natural number that every step makes smaller.
Variant == StageOf(pc) * StageSpan + WithinStage

\* C35: run terminates with one of the four results whatever the FC answers:
\* every step of run makes a natural-number variant strictly smaller (a chunk
\* advances the address, a failure counts towards the limit of 5, a poll
\* counts towards the deadline, anything else leaves the step), no state
\* before the return is without a next step, and the return carries SUCCESS,
\* ALREADY_EMPTY, ERROR or DRY_RUN.
C35_RunTerminates ==
    /\ [](/\ Variant \in Nat
          /\ pc # "done" => ENABLED Next
          /\ pc = "done" => result \in {"SUCCESS", "ALREADY_EMPTY", "ERROR", "DRY_RUN"})
    /\ [][Variant' < Variant]_vars

\* A run that has retried a failed read, then read a chunk, and returned.
C35_Witness ==
    /\ pc = "done"
    /\ hist.fail_streak = 0
    /\ ~hist.nominal
    /\ loc.address > 0
    /\ calls.erase > 0

\* C36: a run that has called erase_flash returns with a manifest that records
\* erase_attempted, whatever the result and whatever went wrong during the
\* erase; a SUCCESS after an erase has erase_completed recorded as well.
C36_EraseIsRecorded ==
    (pc = "done" /\ calls.erase > 0) =>
        /\ disk.manifest.written
        /\ disk.manifest.erase_attempted
        /\ result = "SUCCESS" => disk.manifest.erase_completed

\* C37: no LED state change is lost: a worker that is parked on the wake
\* event, with the event clear, is parked on the pattern of the current state.
C37_ParkedOnTheCurrentState ==
    (ledc.w.pc = "park" /\ ~ledc.event) => ledc.w.state = ledc.state

\* C38: a GET /sessions or index page that begins after a DELETE has
\* answered with success does not list the deleted session, whatever other
\* request threads were doing to the sessions cache meanwhile.
C38_DeletedIsNotListed ==
    \A t \in 1..MaxGetThreads :
        web.srv.get[t].at = "answer" =>
            web.srv.get[t].data \cap web.srv.get[t].deleted = {}

\* C39: a '>' frame the decoder has emitted stays the frame kept for its code
\* until a receive of that code has taken it (or a request of that code has
\* dropped it): a later frame of the same code, whatever its direction,
\* neither takes its place in the pending dict nor has it thrown away.
C39_ResponseIsKept ==
    \A i \in 1..Len(msp.decoded) :
        LET f == msp.decoded[i] IN
        f.direction = FromFc =>
            \/ DictGet(msp.pending, f.code) = f
            \/ f \in Range(decoder.frames)
            \/ f \in msp.consumed

\* C40: when run has returned, a raw_flash.bbl that this run wrote lies in
\* its session directory only together with its manifest.json: every ERROR
\* exit taken after the writer was opened has removed the unverified file.
C40_NoFileWithoutManifest ==
    (pc = "done" /\ disk.bbl_exists) => disk.manifest.written

====
